---- MODULE Spec2Model ----
(***************************************************************************)
(* A model of the meta-pl front end: the Lexer of src/meta/lexer.rs and    *)
(* the single-pass Parser of src/meta/parser.rs.                           *)
(*                                                                         *)
(* A source buffer is a sequence of one-character strings.  The cursor is  *)
(* zero-based as in the source, so the character under the cursor is       *)
(* chars[cursor + 1].  Every operation that can abort the process (an      *)
(* out-of-range index, a failed unwrap, panic!) returns an outcome with    *)
(* panic = TRUE instead of a value.                                        *)
(***************************************************************************)
EXTENDS Integers, Sequences, FiniteSets, TLC

VARIABLES lexer, tokens, program, variables, procedures, structs,
          struct_instances, impl_blocks, diags, lets, status

vars == <<lexer, tokens, program, variables, procedures, structs,
          struct_instances, impl_blocks, diags, lets, status>>

parserVars == <<program, variables, procedures, structs, struct_instances,
                impl_blocks, diags, lets>>

(***************************************************************************)
(* With(value, rest) is `let name = value; rest`: the statements after a   *)
(* binding see its value.                                                  *)
(***************************************************************************)
With(value, rest(_)) == rest(value)

(***************************************************************************)
(* Character classes (char::is_ascii_whitespace and friends).              *)
(***************************************************************************)
Letters == {"a", "b", "c", "d", "e", "f", "g", "h", "i", "j", "k", "l", "m",
            "n", "o", "p", "q", "r", "s", "t", "u", "v", "w", "x", "y", "z",
            "P", "Q", "S"}
Digits == {"0", "1", "2", "3", "4", "5", "6", "7", "8", "9"}
Whitespace == {" ", "\n", "\t"}
punctuation_tokens == {"(", ")", "{", "}", ";", ":", ",", "."}
operator_tokens == {"+", "-", "*", "/", "=", "<", ">", "!"}
AsciiPunctuation == punctuation_tokens \cup operator_tokens
                      \cup {"\"", "'", "_", "@", "#"}

is_ascii_whitespace(c) == c \in Whitespace
is_ascii_digit(c) == c \in Digits
is_ascii_alphabetic(c) == c \in Letters
is_alphanumeric(c) == c \in Letters \cup Digits
is_ascii_punctuation(c) == c \in AsciiPunctuation

(***************************************************************************)
(* Tokens.  kind is the TokenType tag; lt is the LiteralType of a          *)
(* Literal token and "None" otherwise.  NoToken is Option::None.           *)
(***************************************************************************)
Token(kind, lt, value, pos) ==
    [kind |-> kind, lt |-> lt, value |-> value, row |-> pos.row, col |-> pos.col]

NoToken == [kind |-> "NoToken", lt |-> "None", value |-> <<>>, row |-> 0, col |-> 0]

NoChar == "NUL"

(***************************************************************************)
(* The Lexer: chars, cursor, row, line_start.                              *)
(***************************************************************************)
NewLexer(source) == [chars |-> source, cursor |-> 0, row |-> 0, line_start |-> 0]

advance(lx) == [lx EXCEPT !.cursor = @ + 1]

valid(lx) == lx.cursor < Len(lx.chars)

\* chars[cursor]: aborts when the cursor is not inside the buffer, so every
\* use is guarded by valid(lx) and the unguarded case returns a panic.
character(lx) == lx.chars[lx.cursor + 1]

peek_char_by_amount(lx, amount) ==
    IF lx.cursor + amount < Len(lx.chars)
    THEN lx.chars[lx.cursor + amount + 1]
    ELSE NoChar

peek_char(lx) == peek_char_by_amount(lx, 1)

get_cursor_pos(lx) == [row |-> lx.row, col |-> lx.cursor - lx.line_start]

\* &source[start..end]
Slice(lx, start, end) == SubSeq(lx.chars, start + 1, end)

LexOk(lx, tok) == [lx |-> lx, tok |-> tok, panic |-> FALSE]
LexPanic(lx) == [lx |-> lx, tok |-> NoToken, panic |-> TRUE]

\* trim is entered with the cursor inside the buffer.
RECURSIVE trim(_)
trim(lx) ==
    IF valid(lx) /\ is_ascii_whitespace(character(lx))
    THEN With(character(lx), LAMBDA c :
         With(advance(lx), LAMBDA a :
         With(IF c = "\n"
                  THEN [a EXCEPT !.row = @ + 1, !.line_start = a.cursor]
                  ELSE a, LAMBDA b :
         IF ~valid(b) THEN b ELSE trim(b))))
    ELSE lx

RECURSIVE skip_to_newline(_)
skip_to_newline(lx) ==
    IF valid(lx) /\ character(lx) # "\n" THEN skip_to_newline(advance(lx)) ELSE lx

drop_line(lx) == advance(skip_to_newline(lx))

\* The scanning loops below re-read character() after every advance; the
\* read aborts when the advance has left the buffer.
RECURSIVE string_loop(_)
string_loop(lx) ==
    With(character(lx), LAMBDA c :
    IF c # "\"" /\ (is_alphanumeric(c) \/ is_ascii_whitespace(c)
                      \/ is_ascii_punctuation(c))
    THEN With(advance(lx), LAMBDA a :
         IF valid(a) THEN string_loop(a) ELSE [lx |-> a, panic |-> TRUE])
    ELSE [lx |-> lx, panic |-> FALSE])

parse_string_token(lx, pos) ==
    With(advance(lx), LAMBDA a :
    IF ~valid(a) THEN LexPanic(a)
    ELSE With(string_loop(a), LAMBDA r :
         IF r.panic THEN LexPanic(r.lx)
         ELSE LexOk(advance(r.lx),
                    Token("Literal", "String",
                          Slice(r.lx, a.cursor, r.lx.cursor), pos))))

parse_char_token(lx, pos) ==
    With(advance(lx), LAMBDA a :
    IF ~valid(a) THEN LexPanic(a)
    ELSE LexOk(advance(advance(a)),
               Token("Literal", "Char", <<character(a)>>, pos)))

PunctuationKind(c) ==
    CASE c = "(" -> "Oparen"
      [] c = ")" -> "Cparen"
      [] c = "{" -> "Ocurly"
      [] c = "}" -> "Ccurly"
      [] c = ":" -> "Colon"
      [] c = ";" -> "Semicolon"
      [] c = "," -> "Comma"
      [] c = "." -> "Period"

parse_punctuation_token(lx, pos) ==
    With(character(lx), LAMBDA token :
    LexOk(advance(lx), Token(PunctuationKind(token), "None", <<token>>, pos)))

NarrowKind(op) ==
    CASE op = "+" -> "Add"
      [] op = "-" -> "Sub"
      [] op = "*" -> "Mul"
      [] op = "/" -> "Div"
      [] op = "=" -> "Assign"
      [] op = "<" -> "Lt"
      [] op = ">" -> "Gt"
      [] op = "!" -> "Neg"

WideKind(op) ==
    CASE op = "=" -> "Eq"
      [] op = "<" -> "Lte"
      [] op = ">" -> "Gte"
      [] op = "!" -> "Ne"

\* parse_operator_token with the lookahead applied to `=` alone.
parse_operator_token_eq_only(lx, pos) ==
    With(character(lx), LAMBDA op :
    With(peek_char(lx), LAMBDA next :
    With(advance(lx), LAMBDA a :
    IF op = "=" /\ next = "="
    THEN LexOk(advance(a), Token(WideKind(op), "None", <<op, "=">>, pos))
    ELSE LexOk(a, Token(NarrowKind(op), "None", <<op>>, pos)))))

parse_operator_token(lx, pos) ==
    With(character(lx), LAMBDA op :
    With(peek_char(lx), LAMBDA next :
    With(advance(lx), LAMBDA a :
    IF op \in {"=", "<", ">", "!"} /\ next = "="
    THEN LexOk(advance(a), Token(WideKind(op), "None", <<op, "=">>, pos))
    ELSE LexOk(a, Token(NarrowKind(op), "None", <<op>>, pos)))))

RECURSIVE ident_loop(_)
ident_loop(lx) ==
    With(character(lx), LAMBDA c :
    IF (valid(lx) /\ is_alphanumeric(c)) \/ c = "_"
    THEN With(advance(lx), LAMBDA a :
         IF valid(a) THEN ident_loop(a) ELSE [lx |-> a, panic |-> TRUE])
    ELSE [lx |-> lx, panic |-> FALSE])

KeywordKind(value) ==
    CASE value = <<"i", "f">> -> "If"
      [] value = <<"l", "e", "t">> -> "Let"
      [] value = <<"p", "r", "o", "c">> -> "Proc"
      [] value = <<"s", "t", "r", "u", "c", "t">> -> "Struct"
      [] value = <<"r", "e", "t", "u", "r", "n">> -> "Return"
      [] value \in {<<"t", "r", "u", "e">>, <<"f", "a", "l", "s", "e">>} -> "Literal"
      [] OTHER -> "Ident"

parse_ident_token(lx, pos) ==
    With(ident_loop(lx), LAMBDA r :
    With(Slice(r.lx, lx.cursor, r.lx.cursor), LAMBDA value :
    With(KeywordKind(value), LAMBDA kind :
    IF r.panic THEN LexPanic(r.lx)
    ELSE LexOk(r.lx, Token(kind, IF kind = "Literal" THEN "Bool" ELSE "None",
                           value, pos)))))

\* [lx, is_float, panic]
RECURSIVE digit_loop(_, _)
digit_loop(lx, is_float) ==
    IF valid(lx) /\ is_ascii_digit(character(lx))
    THEN With(advance(lx), LAMBDA a :
         IF ~valid(a) THEN [lx |-> a, is_float |-> is_float, panic |-> TRUE]
         ELSE IF character(a) = "."
         THEN With(advance(a), LAMBDA b :
              IF ~valid(b) THEN [lx |-> b, is_float |-> TRUE, panic |-> TRUE]
              ELSE digit_loop(b, TRUE))
         ELSE digit_loop(a, is_float))
    ELSE [lx |-> lx, is_float |-> is_float, panic |-> FALSE]

parse_digit_token(lx, pos) ==
    With(digit_loop(lx, FALSE), LAMBDA r :
    IF r.panic THEN LexPanic(r.lx)
    ELSE LexOk(r.lx, Token("Literal", IF r.is_float THEN "Float" ELSE "Number",
                           Slice(r.lx, lx.cursor, r.lx.cursor), pos)))

\* The classification of get_next_token, entered with a cursor that has
\* passed trim and the comment test.
classify(lx) ==
    IF ~valid(lx) THEN LexPanic(lx)
    ELSE With(character(lx), LAMBDA first :
         With(get_cursor_pos(lx), LAMBDA pos :
         IF first = "\"" THEN parse_string_token(lx, pos)
         ELSE IF first = "'" THEN parse_char_token(lx, pos)
         ELSE IF first \in punctuation_tokens THEN parse_punctuation_token(lx, pos)
         ELSE IF first \in operator_tokens THEN parse_operator_token(lx, pos)
         ELSE IF is_ascii_alphabetic(first) \/ first = "_"
              THEN parse_ident_token(lx, pos)
         ELSE IF is_ascii_digit(first) THEN parse_digit_token(lx, pos)
         ELSE LexOk(lx, NoToken)))

get_next_token(lx) ==
    IF ~valid(lx) THEN LexOk(lx, NoToken)
    ELSE With(IF is_ascii_whitespace(character(lx)) THEN trim(lx) ELSE lx, LAMBDA a :
         IF ~valid(a) THEN LexOk(a, NoToken)
         ELSE With(IF character(a) = "/" /\ peek_char(a) = "/"
                       THEN drop_line(a) ELSE a, LAMBDA b :
              classify(b)))

(***************************************************************************)
(* The token stream on its own: a consumer that pulls tokens with          *)
(* Iterator::next until the stream returns None.                           *)
(***************************************************************************)
MaxLen == 4

Alphabet == {"a", "1", ".", "=", "<", " ", "\n", "/", "\""}

ConcreteBuffers ==
    { <<"a", " ", "<", "=", " ", "b">>,
      <<"a", " ", "<", "=", " ", "b", ";">>,
      <<"1", "2">>, <<"4", "2">>, <<"3", ".", "1", "4">>,
      <<"1", "2", ";">>, <<"3", ".", "1", "4", " ">>,
      <<"a", " ", ">", "=", " ", "1", ";">>,
      <<"a", " ", "!", "=", " ", "1", ";">>,
      <<"!", "a", " ", ">", " ", "b", " ">>,
      <<"=", "=", "=", ";">>,
      <<"'", "a", "'", " ", "x", ";">>,
      <<"/", "/", " ", "c", "\n", "l", "e", "t", " ", "x", ";">>,
      <<"x", ";", "\n", "/", "/", "c", "\n", "\n", "y", ";">>,
      <<"\"", "a", "\n", "b", "\"", " ", "x", ";">>,
      <<"x", " ", "@", " ", "y", ";">>,
      <<"/", "/", "c", "\n", " ", " ", "y", ";">>,
      <<"a", " ", "/", "/", "c">>,
      <<"1", ".", "2", ".", "3", " ">>,
      <<"w", "h", "i", "l", "e", " ", "x", " ">>,
      <<"f", "o", "r", " ", "i", " ", "i", "n", " ", "r", " ">>,
      <<"i", "m", "p", "l", " ", "P", " ">>,
      <<"l", "e", "t", " ", "p", "r", "o", "c", " ", "s", "t", "r", "u", "c", "t",
        " ", "i", "f", " ", "r", "e", "t", "u", "r", "n", " ", "x", " ">>,
      <<"t", "r", "u", "e", " ", "f", "a", "l", "s", "e", " ">> }

Buffers == UNION {[1..n -> Alphabet] : n \in 0..MaxLen} \cup ConcreteBuffers

NoParserState ==
    /\ program = <<>>
    /\ variables = <<>>
    /\ procedures = <<>>
    /\ structs = <<>>
    /\ struct_instances = <<>>
    /\ impl_blocks = <<>>
    /\ diags = <<>>
    /\ lets = <<>>

LexInit ==
    /\ lexer \in {NewLexer(b) : b \in Buffers}
    /\ tokens = <<>>
    /\ status = "running"
    /\ NoParserState

\* One call of Iterator::next by the consumer.
LexNext ==
    /\ status = "running"
    /\ \E r \in {get_next_token(lexer)} :
           /\ lexer' = r.lx
           /\ tokens' = IF r.panic \/ r.tok = NoToken THEN tokens
                        ELSE Append(tokens, r.tok)
           /\ status' = IF r.panic THEN "panic"
                        ELSE IF r.tok = NoToken THEN "exhausted" ELSE "running"
    /\ UNCHANGED parserVars

LexSpec == LexInit /\ [][LexNext]_vars

\* The consumer's loop run to its end on one lexer: [lx, tokens, status].
RECURSIVE lex_loop(_, _)
lex_loop(lx, toks) ==
    With(get_next_token(lx), LAMBDA r :
    IF r.panic THEN [lx |-> r.lx, tokens |-> toks, status |-> "panic"]
    ELSE IF r.tok = NoToken
    THEN [lx |-> r.lx, tokens |-> toks, status |-> "exhausted"]
    ELSE lex_loop(r.lx, Append(toks, r.tok)))

\* Every token of one source text.
lex_all(source) == lex_loop(NewLexer(source), <<>>)

(***************************************************************************)
(* The AST (src/meta/nodes.rs, src/meta/expression.rs).  Names, type names *)
(* and token texts are sequences of characters.  NoExpr is Option::None.   *)
(***************************************************************************)
NoExpr == [kind |-> "None"]

NoString == [some |-> FALSE, v |-> <<>>]
SomeString(v) == [some |-> TRUE, v |-> v]

VarMetadataNode(name, type_name) == [name |-> name, type_name |-> type_name]

Literal(token, lt) == [kind |-> "Literal", token |-> token, lt |-> lt]
Variable(node) == [kind |-> "Variable", node |-> node]
LetStatement(name, type_name, value) ==
    [kind |-> "LetStatement", name |-> name, type_name |-> type_name, value |-> value]
AssignStatement(value, new_value) ==
    [kind |-> "AssignStatement", value |-> value, new_value |-> new_value]
ReturnStatement(value) == [kind |-> "ReturnStatement", value |-> value]
IfStatement(value, statements) ==
    [kind |-> "IfStatement", value |-> value, statements |-> statements]
ProcDefNode(name, return_type, args, statements) ==
    [name |-> name, return_type |-> return_type, args |-> args,
     statements |-> statements]
ProcDef(node) == [kind |-> "ProcDef", node |-> node]
FunCall(proc_def, args) == [kind |-> "FunCall", proc_def |-> proc_def, args |-> args]
StructDefNode(type_name, fields) == [type_name |-> type_name, fields |-> fields]
StructDef(node) == [kind |-> "StructDef", node |-> node]
StructInstanceNode(struct_def, fields) == [struct_def |-> struct_def, fields |-> fields]
StructInstance(node) == [kind |-> "StructInstance", node |-> node]
StructFieldAssign(struct_instance, field, new_value) ==
    [kind |-> "StructFieldAssign", struct_instance |-> struct_instance,
     field |-> field, new_value |-> new_value]
StructFieldAccess(struct_instance, field) ==
    [kind |-> "StructFieldAccess", struct_instance |-> struct_instance, field |-> field]
BinaryOpNode(lhs, op, rhs) == [kind |-> "BinaryOp", lhs |-> lhs, op |-> op, rhs |-> rhs]
WhileStatement(value, statements) ==
    [kind |-> "WhileStatement", value |-> value, statements |-> statements]
RangeStatement(start, end) == [kind |-> "RangeStatement", start |-> start, end |-> end]
ForLoop(counter, range, statements) ==
    [kind |-> "ForLoop", counter |-> counter, range |-> range,
     statements |-> statements]
ImplNode(procs, struct_def) == [procedures |-> procs, struct_def |-> struct_def]
ImplStatement(node) == [kind |-> "ImplStatement", node |-> node]
ImplFunCall(impl_node, fun_call_node) ==
    [kind |-> "ImplFunCall", impl_node |-> impl_node, fun_call_node |-> fun_call_node]

S_char == <<"c", "h", "a", "r">>
S_bool == <<"b", "o", "o", "l">>
S_i32 == <<"i", "3", "2">>
S_f32 == <<"f", "3", "2">>
S_String == <<"S", "t", "r", "i", "n", "g">>
S_None == <<"N", "o", "n", "e">>

(***************************************************************************)
(* The Parser.  A parser state p holds the fields of struct Parser but the *)
(* program, plus                                                           *)
(*   diags : the diagnostic lines printed so far,                          *)
(*   lets  : the names of the variables registered by a let, in order,     *)
(*   abort : "ok", "panic" once an unwrap, an index or panic! has aborted  *)
(*           the process, "hang" once a loop has repeated without any      *)
(*           change of state, "overflow" once a recursion cannot end.      *)
(* A sub-parser returns [p, e]: the state it leaves and its expression     *)
(* (NoExpr for None).  After an abort nothing more runs.                   *)
(***************************************************************************)
make_variable(name, type_name, value) ==
    [metadata |-> VarMetadataNode(name, type_name), value |-> value]

Ret(p, e) == [p |-> p, e |-> e]
None(p) == Ret(p, NoExpr)
Bad(p) == p.abort # "ok"
Abort(p, how) == [p EXCEPT !.abort = how]

\* self.lexer.next()
lexer_next(p) ==
    With(get_next_token(p.lexer), LAMBDA r :
    [p |-> [p EXCEPT !.lexer = r.lx, !.abort = IF r.panic THEN "panic" ELSE "ok"],
     t |-> r.tok])

\* self.lexer.next().unwrap()
lexer_next_unwrap(p) ==
    With(lexer_next(p), LAMBDA r :
    IF ~Bad(r.p) /\ r.t = NoToken THEN [p |-> Abort(r.p, "panic"), t |-> NoToken]
    ELSE r)

FirstIndex(S) == IF S = {} THEN 0 ELSE CHOOSE i \in S : \A j \in S : i <= j

\* A lookup that returns the last procedure of the name.
find_procedure_last(ps, name) ==
    IF \A i \in 1..Len(ps) : ps[i].name # name THEN 0
    ELSE CHOOSE i \in 1..Len(ps) :
             ps[i].name = name /\ \A j \in (i + 1)..Len(ps) : ps[j].name # name

\* iter().position(..) / iter().find(..): the index of the first match, 0 for None.
find_variable(vs, name) == FirstIndex({i \in 1..Len(vs) : vs[i].metadata.name = name})
find_procedure(ps, name) == FirstIndex({i \in 1..Len(ps) : ps[i].name = name})
find_struct(ss, name) == FirstIndex({i \in 1..Len(ss) : ss[i].type_name = name})
find_impl(bs, name) == FirstIndex({i \in 1..Len(bs) : bs[i].struct_def.type_name = name})

\* Vec::remove(index)
RemoveAt(s, i) == SubSeq(s, 1, i - 1) \o SubSeq(s, i + 1, Len(s))

Diag(token, what) ==
    [row |-> token.row, col |-> token.col, what |-> what, text |-> token.value]

string_from_literal_type(lt) ==
    CASE lt = "Char" -> S_char
      [] lt = "Bool" -> S_bool
      [] lt = "Number" -> S_i32
      [] lt = "Float" -> S_f32
      [] lt = "String" -> S_String
      [] OTHER -> S_None

token_type_to_binary_op(kind) ==
    IF kind \in {"Inc", "Dec", "Add", "AddAssign", "Sub", "SubAssign", "Eq", "Ne",
                 "Lt", "Lte", "Gt", "Gte", "Neg", "Mul", "Div"}
    THEN kind
    ELSE IF kind \in {"MulAssign", "DivAssign"} THEN "SubAssign"
    ELSE "None"

RECURSIVE parse_expr(_, _), visit_if_statement(_), if_body_loop(_, _),
          visit_let_statement(_), visit_return_statement(_),
          visit_procedure_def(_), proc_body_loop(_, _), visit_args(_, _),
          visit_identifier(_, _), visit_struct_field(_, _),
          struct_field_loop(_, _, _, _), visit_procedure(_, _),
          procedure_args_loop(_, _, _), make_struct_instance(_, _),
          struct_instance_loop(_, _, _), visit_struct_def(_),
          visit_binary_op(_, _), binary_op_loop(_, _),
          visit_impl_block(_), impl_body_loop(_, _),
          visit_struct_impl(_, _), struct_impl_args_loop(_, _, _),
          visit_while_statement(_), visit_for_loop(_)

(***************************************************************************)
(* visit_binary_op: while the character AFTER the one under the cursor is  *)
(* an operator character, take the next token as the operator and the one  *)
(* after it as the right operand.                                          *)
(***************************************************************************)
Fold(ex, op, rhs) == IF ex = NoExpr THEN NoExpr ELSE BinaryOpNode(ex, op, rhs)

binary_op_loop(p, ex) ==
    IF peek_char(p.lexer) \notin operator_tokens THEN Ret(p, ex)
    ELSE With(lexer_next_unwrap(p), LAMBDA a :
         With(token_type_to_binary_op(a.t.kind), LAMBDA op :
         IF Bad(a.p) THEN None(a.p)
         ELSE IF op \in {"Inc", "Dec"}
         THEN binary_op_loop(a.p,
                  Fold(ex, op, Literal(Token("Literal", "Number", <<"1">>,
                                              get_cursor_pos(a.p.lexer)), "Number")))
         ELSE With(lexer_next_unwrap(a.p), LAMBDA b :
              With(find_variable(b.p.variables, b.t.value), LAMBDA v :
              IF Bad(b.p) THEN None(b.p)
              ELSE IF b.t.kind = "Literal"
              THEN binary_op_loop(b.p, Fold(ex, op, Literal(b.t, b.t.lt)))
              ELSE IF b.t.kind = "Ident" /\ v # 0
              THEN binary_op_loop(b.p, Fold(ex, op, Variable(b.p.variables[v])))
              ELSE binary_op_loop(b.p, ex)))))

visit_binary_op(p, expr) == binary_op_loop(p, expr)

(***************************************************************************)
(* let                                                                     *)
(***************************************************************************)
\* The inferred type name of a let value, from its first token.
kind_str_of(p, first) ==
    IF first.kind = "Literal" THEN string_from_literal_type(first.lt)
    ELSE IF first.kind = "Ident"
    THEN With(find_variable(p.variables, first.value), LAMBDA v :
         With(find_procedure(p.procedures, first.value), LAMBDA f :
         With(find_struct(p.structs, first.value), LAMBDA s :
         IF v # 0 THEN p.variables[v].metadata.type_name
         ELSE IF f # 0
         THEN (IF p.procedures[f].return_type.some
               THEN p.procedures[f].return_type.v ELSE S_None)
         ELSE IF s # 0 THEN p.structs[s].type_name
         ELSE S_None)))
    ELSE S_None

\* `: type =` after the name: [p, hint].
let_type_hint(p, next) ==
    IF next.kind # "Colon" THEN [p |-> p, hint |-> NoString]
    ELSE With(lexer_next_unwrap(p), LAMBDA a :
         With(lexer_next_unwrap(a.p), LAMBDA b :
         IF Bad(a.p) THEN [p |-> a.p, hint |-> NoString]
         ELSE [p |-> b.p,
               hint |-> IF a.t.kind = "Ident" THEN SomeString(a.t.value)
                        ELSE NoString]))

\* A registration that records the hinted type when a hint is given.
let_register_hinted_type(p, name, first, hint, value) ==
    With(kind_str_of(p, first), LAMBDA kind_str :
    With(IF hint.some /\ kind_str # hint.v
             THEN [p EXCEPT !.diags = Append(@, Diag(first, "expected"))]
             ELSE p, LAMBDA q :
    With(IF hint.some THEN hint.v ELSE kind_str, LAMBDA recorded :
    Ret([q EXCEPT !.variables = Append(@, make_variable(name, recorded, value)),
                  !.lets = Append(@, name)],
        LetStatement(name, recorded, value)))))

\* The registration of the variable and the LetStatement (parser.rs:264-314).
let_register(p, name, first, hint, value) ==
    With(kind_str_of(p, first), LAMBDA kind_str :
    With(IF hint.some /\ kind_str # hint.v
             THEN [p EXCEPT !.diags = Append(@, Diag(first, "expected"))]
             ELSE p, LAMBDA q :
    Ret([q EXCEPT !.variables = Append(@, make_variable(name, kind_str, value)),
                  !.lets = Append(@, name)],
        LetStatement(name, kind_str, value))))

visit_let_statement(p) ==
    With(lexer_next(p), LAMBDA a :
    IF Bad(a.p) \/ a.t = NoToken THEN None(a.p)
    ELSE With(lexer_next(a.p), LAMBDA b :
         IF Bad(b.p) \/ b.t = NoToken THEN None(b.p)
         ELSE With(let_type_hint(b.p, b.t), LAMBDA h :
              With(lexer_next_unwrap(h.p), LAMBDA c :
              With(parse_expr(c.p, c.t), LAMBDA r :
              IF Bad(h.p) THEN None(h.p)
              ELSE IF Bad(c.p) THEN None(c.p)
              ELSE IF Bad(r.p) \/ r.e = NoExpr THEN None(r.p)
              ELSE let_register(r.p, a.t.value, c.t, h.hint, r.e))))))

(***************************************************************************)
(* return, if                                                              *)
(***************************************************************************)
visit_return_statement(p) ==
    With(lexer_next(p), LAMBDA a :
    With(parse_expr(a.p, a.t), LAMBDA r :
    IF Bad(a.p) \/ a.t = NoToken THEN None(a.p)
    ELSE IF Bad(r.p) \/ r.e = NoExpr THEN None(r.p)
    ELSE Ret(r.p, ReturnStatement(r.e))))

visit_boolean_expr(p, expr) ==
    CASE expr.kind = "FunCall" ->
           IF expr.proc_def.return_type.some /\ expr.proc_def.return_type.v = S_bool
           THEN visit_binary_op(p, expr) ELSE None(p)
      [] expr.kind = "Variable" ->
           IF expr.node.metadata.type_name = S_bool
           THEN visit_binary_op(p, expr) ELSE None(p)
      [] expr.kind = "StructFieldAccess" -> visit_binary_op(p, expr)
      [] expr.kind = "BinaryOp" -> Ret(p, expr)
      [] expr.kind = "Literal" -> visit_binary_op(p, expr)
      [] OTHER -> None(p)

\* The body loop of if (and of while and for): runs to `}` or to the end of
\* the stream; a statement without an expression is skipped.
if_body_loop(p, statements) ==
    With(lexer_next(p), LAMBDA a :
    With(parse_expr(a.p, a.t), LAMBDA r :
    IF Bad(a.p) THEN [p |-> a.p, statements |-> statements]
    ELSE IF a.t = NoToken \/ a.t.kind = "Ccurly"
    THEN [p |-> a.p, statements |-> statements]
    ELSE IF a.t.kind = "Semicolon" THEN if_body_loop(a.p, statements)
    ELSE IF Bad(r.p) THEN [p |-> r.p, statements |-> statements]
    ELSE if_body_loop(r.p, IF r.e = NoExpr THEN statements
                           ELSE Append(statements, r.e))))

visit_if_statement(p) ==
    With(lexer_next_unwrap(p), LAMBDA a :
    With(parse_expr(a.p, a.t), LAMBDA r :
    With(visit_boolean_expr(r.p, r.e), LAMBDA b :
    With(lexer_next(b.p), LAMBDA c :
    With(if_body_loop(c.p, <<>>), LAMBDA d :
    IF Bad(a.p) THEN None(a.p)
    ELSE IF Bad(r.p) \/ r.e = NoExpr THEN None(r.p)
    ELSE IF Bad(b.p) \/ b.e = NoExpr THEN None(b.p)
    ELSE IF Bad(c.p) \/ c.t = NoToken THEN None(c.p)
    ELSE IF Bad(d.p) THEN None(d.p)
    ELSE Ret(d.p, IfStatement(b.e, d.statements)))))))

visit_while_statement(p) ==
    With(lexer_next_unwrap(p), LAMBDA a :
    With(parse_expr(a.p, a.t), LAMBDA r :
    With(visit_boolean_expr(r.p, r.e), LAMBDA b :
    With(lexer_next(b.p), LAMBDA c :
    With(if_body_loop(c.p, <<>>), LAMBDA d :
    IF Bad(a.p) THEN None(a.p)
    ELSE IF Bad(r.p) \/ r.e = NoExpr THEN None(r.p)
    ELSE IF Bad(b.p) \/ b.e = NoExpr THEN None(b.p)
    ELSE IF Bad(c.p) \/ c.t = NoToken THEN None(c.p)
    ELSE IF Bad(d.p) THEN None(d.p)
    ELSE Ret(d.p, WhileStatement(b.e, d.statements)))))))

\* The part of visit_for_loop after the counter is pushed at counter_index:
\* the end expression, the body, and the removal of the entry at that index.
for_loop_rest(p, counter, counter_index, start) ==
    With(lexer_next_unwrap(p), LAMBDA e :
    With(parse_expr(e.p, e.t), LAMBDA f :
    With(lexer_next(f.p), LAMBDA g :
    With(if_body_loop(g.p, <<>>), LAMBDA body :
    IF Bad(e.p) THEN None(e.p)
    ELSE IF Bad(f.p) \/ f.e = NoExpr THEN None(f.p)
    ELSE IF Bad(g.p) \/ g.t = NoToken THEN None(g.p)
    ELSE IF Bad(body.p) THEN None(body.p)
    ELSE IF counter_index > Len(body.p.variables) THEN None(Abort(body.p, "panic"))
    ELSE Ret([body.p EXCEPT !.variables = RemoveAt(@, counter_index)],
             ForLoop(counter, RangeStatement(start, f.e), body.statements))))))

visit_for_loop(p) ==
    With(lexer_next(p), LAMBDA a :
    With(lexer_next_unwrap(a.p), LAMBDA b :
    With(lexer_next_unwrap(b.p), LAMBDA c :
    With(parse_expr(c.p, c.t), LAMBDA r :
    With(lexer_next_unwrap(r.p), LAMBDA d :
    IF Bad(a.p) \/ a.t = NoToken THEN None(a.p)
    ELSE IF Bad(b.p) THEN None(b.p)
    ELSE IF Bad(c.p) THEN None(c.p)
    ELSE IF Bad(r.p) \/ r.e = NoExpr THEN None(r.p)
    ELSE IF Bad(d.p) THEN None(d.p)
    ELSE for_loop_rest(
             [d.p EXCEPT !.variables = Append(@, make_variable(a.t.value, S_i32, r.e))],
             make_variable(a.t.value, S_i32, r.e),
             Len(d.p.variables) + 1, r.e))))))

(***************************************************************************)
(* Default values of procedure parameters.  A struct type is initialised   *)
(* field by field; `open` holds the struct types whose initialisation is   *)
(* in progress, and meeting one of them again is a recursion that cannot   *)
(* end.  [e, abort]                                                        *)
(***************************************************************************)
DefaultLiteral(lx, lt, text) ==
    Literal(Token("Literal", lt, text, get_cursor_pos(lx)), lt)

RECURSIVE default_initialize_value(_, _, _), default_fields(_, _, _, _, _)

\* default_initialize_struct (the loop over the fields): [fields, abort].
default_fields(p, defs, i, acc, open) ==
    IF i > Len(defs) THEN [fields |-> acc, abort |-> "ok"]
    ELSE With(default_initialize_value(p, defs[i].type_name, open), LAMBDA v :
         IF v.abort # "ok" THEN [fields |-> acc, abort |-> v.abort]
         ELSE default_fields(p, defs, i + 1,
                  Append(acc, make_variable(defs[i].name, defs[i].type_name, v.e)),
                  open))

default_initialize_value(p, type_name, open) ==
    With(find_struct(p.structs, type_name), LAMBDA s :
    IF s # 0
    THEN IF type_name \in open THEN [e |-> NoExpr, abort |-> "overflow"]
         ELSE With(default_fields(p, p.structs[s].fields, 1, <<>>,
                                      open \cup {type_name}), LAMBDA f :
              [e |-> StructInstance(StructInstanceNode(p.structs[s], f.fields)),
               abort |-> f.abort])
    ELSE CASE type_name = S_char ->
                [e |-> DefaultLiteral(p.lexer, "Char", <<>>), abort |-> "ok"]
           [] type_name = S_bool ->
                [e |-> DefaultLiteral(p.lexer, "Bool", <<"f", "a", "l", "s", "e">>),
                 abort |-> "ok"]
           [] type_name = S_i32 ->
                [e |-> DefaultLiteral(p.lexer, "Number", <<"0">>), abort |-> "ok"]
           [] type_name = S_f32 ->
                [e |-> DefaultLiteral(p.lexer, "Float", <<"0", ".", "0">>),
                 abort |-> "ok"]
           [] type_name = S_String ->
                [e |-> DefaultLiteral(p.lexer, "String", <<>>), abort |-> "ok"]
           [] OTHER -> [e |-> NoExpr, abort |-> "panic"])

(***************************************************************************)
(* proc                                                                    *)
(***************************************************************************)
\* [p, args]
visit_args(p, args) ==
    With(lexer_next(p), LAMBDA a :
    With(lexer_next_unwrap(a.p), LAMBDA b :
    With(lexer_next_unwrap(b.p), LAMBDA c :
    With(VarMetadataNode(a.t.value, c.t.value), LAMBDA arg :
    With(default_initialize_value(c.p, c.t.value, {}), LAMBDA v :
    IF Bad(a.p) \/ a.t = NoToken \/ a.t.kind = "Cparen"
    THEN [p |-> a.p, args |-> args]
    ELSE IF a.t.kind = "Comma" THEN visit_args(a.p, args)
    ELSE IF Bad(b.p) THEN [p |-> b.p, args |-> args]
    ELSE IF Bad(c.p) THEN [p |-> c.p, args |-> args]
    ELSE IF v.abort # "ok" THEN [p |-> Abort(c.p, v.abort), args |-> Append(args, arg)]
    ELSE visit_args([c.p EXCEPT !.variables =
                                    Append(@, [metadata |-> arg, value |-> v.e])],
                    Append(args, arg)))))))

\* `: returnType {` after the parameter list: [p, return_type].
proc_return_type(p, n) ==
    IF n.kind # "Colon" THEN [p |-> p, return_type |-> NoString]
    ELSE With(lexer_next_unwrap(p), LAMBDA a :
         With(lexer_next_unwrap(a.p), LAMBDA b :
         IF Bad(a.p) THEN [p |-> a.p, return_type |-> NoString]
         ELSE [p |-> b.p, return_type |-> SomeString(a.t.value)]))

\* The body loop of a procedure: ends at `}`, at the end of the stream and at
\* the first statement that yields no expression.  [p, statements]
proc_body_loop(p, statements) ==
    With(lexer_next(p), LAMBDA a :
    With(parse_expr(a.p, a.t), LAMBDA r :
    IF Bad(a.p) THEN [p |-> a.p, statements |-> statements]
    ELSE IF a.t = NoToken \/ a.t.kind = "Ccurly"
    THEN [p |-> a.p, statements |-> statements]
    ELSE IF a.t.kind = "Semicolon" THEN proc_body_loop(a.p, statements)
    ELSE IF Bad(r.p) \/ r.e = NoExpr THEN [p |-> r.p, statements |-> statements]
    ELSE proc_body_loop(r.p, Append(statements, r.e))))

\* For each argument, in order, the first variable of its name is removed.
RECURSIVE remove_args(_, _, _)
remove_args(p, args, i) ==
    IF i > Len(args) THEN p
    ELSE With(find_variable(p.variables, args[i].name), LAMBDA pos :
         IF pos = 0 THEN Abort(p, "panic")
         ELSE remove_args([p EXCEPT !.variables = RemoveAt(@, pos)], args, i + 1))

\* parser.rs:385-430, entered after the parameter list.
proc_def_rest(p, ident, args) ==
    With(lexer_next(p), LAMBDA n :
    With(proc_return_type(n.p, n.t), LAMBDA t :
    With(IF n.t = NoToken THEN [p |-> n.p, statements |-> <<>>]
                ELSE IF Bad(t.p) THEN [p |-> t.p, statements |-> <<>>]
                ELSE proc_body_loop(t.p, <<>>), LAMBDA body :
    With(remove_args(body.p, args, 1), LAMBDA q :
    With(ProcDefNode(ident.value,
                            IF n.t = NoToken THEN NoString ELSE t.return_type,
                            args, body.statements), LAMBDA node :
    IF Bad(n.p) THEN None(n.p)
    ELSE IF Bad(body.p) THEN None(body.p)
    ELSE IF Bad(q) THEN None(q)
    ELSE Ret([q EXCEPT !.procedures = Append(@, node)], ProcDef(node)))))))

\* A definition that enters the procedure in the table before its parameters
\* and body are parsed.
visit_procedure_def_registered_first(p) ==
    With(lexer_next(p), LAMBDA a :
    With(lexer_next(a.p), LAMBDA b :
    With(visit_args([b.p EXCEPT !.procedures =
                        Append(@, ProcDefNode(a.t.value, NoString, <<>>, <<>>))],
                    <<>>), LAMBDA c :
    IF Bad(a.p) \/ a.t = NoToken THEN None(a.p)
    ELSE IF Bad(b.p) \/ b.t = NoToken THEN None(b.p)
    ELSE IF Bad(c.p) THEN None(c.p)
    ELSE proc_def_rest(c.p, a.t, c.args))))

visit_procedure_def(p) ==
    With(lexer_next(p), LAMBDA a :
    With(lexer_next(a.p), LAMBDA b :
    With(visit_args(b.p, <<>>), LAMBDA c :
    IF Bad(a.p) \/ a.t = NoToken THEN None(a.p)
    ELSE IF Bad(b.p) \/ b.t = NoToken THEN None(b.p)
    ELSE IF Bad(c.p) THEN None(c.p)
    ELSE proc_def_rest(c.p, a.t, c.args))))

\* A call of a declared procedure: [p, e].  The k-th argument expression is
\* paired with proc_def.args[k]; the index aborts when there is none.
procedure_args_loop(p, proc_def, args) ==
    With(lexer_next(p), LAMBDA a :
    With(parse_expr(a.p, a.t), LAMBDA r :
    With(Len(args) + 1, LAMBDA i :
    IF Bad(a.p) THEN [p |-> a.p, args |-> args]
    ELSE IF a.t = NoToken \/ a.t.kind = "Cparen" THEN [p |-> a.p, args |-> args]
    ELSE IF a.t.kind = "Comma" THEN procedure_args_loop(a.p, proc_def, args)
    ELSE IF Bad(r.p) THEN [p |-> r.p, args |-> args]
    ELSE IF r.e = NoExpr THEN procedure_args_loop(r.p, proc_def, args)
    ELSE IF i > Len(proc_def.args) THEN [p |-> Abort(r.p, "panic"), args |-> args]
    ELSE procedure_args_loop(r.p, proc_def,
             Append(args, make_variable(proc_def.args[i].name,
                                        proc_def.args[i].type_name, r.e))))))

visit_procedure(p, proc_def) ==
    With(lexer_next(p), LAMBDA a :
    With(IF a.t = NoToken THEN [p |-> a.p, args |-> <<>>]
             ELSE procedure_args_loop(a.p, proc_def, <<>>), LAMBDA l :
    IF Bad(a.p) THEN None(a.p)
    ELSE IF Bad(l.p) THEN None(l.p)
    ELSE Ret(l.p, FunCall(proc_def, l.args))))

(***************************************************************************)
(* struct definitions and instance literals                                *)
(***************************************************************************)
\* The `while self.lexer.valid()` loop of visit_struct_def: [p, fields].  An
\* iteration in which next() returns None changes nothing, and the loop then
\* repeats for ever.
RECURSIVE struct_def_loop(_, _)
struct_def_loop(p, fields) ==
    IF ~valid(p.lexer) THEN [p |-> p, fields |-> fields]
    ELSE With(lexer_next(p), LAMBDA f :
         With(lexer_next_unwrap(f.p), LAMBDA c :
         With(lexer_next(c.p), LAMBDA t :
         With(IF t.t = NoToken THEN fields
                   ELSE Append(fields, VarMetadataNode(f.t.value, t.t.value)), LAMBDA fs :
         With(IF character(t.p.lexer) = "," THEN lexer_next_unwrap(t.p).p ELSE t.p, LAMBDA d :
         IF Bad(f.p) THEN [p |-> f.p, fields |-> fields]
         ELSE IF f.t = NoToken
         THEN (IF f.p = p THEN [p |-> Abort(p, "hang"), fields |-> fields]
               ELSE struct_def_loop(f.p, fields))
         ELSE IF f.t.kind = "Ccurly" THEN [p |-> f.p, fields |-> fields]
         ELSE IF f.t.kind # "Ident"
         THEN [p |-> [f.p EXCEPT !.diags = Append(@, Diag(f.t, "field"))],
               fields |-> fields]
         ELSE IF Bad(c.p) THEN [p |-> c.p, fields |-> fields]
         ELSE IF Bad(t.p) THEN [p |-> t.p, fields |-> fields]
         ELSE IF ~valid(t.p.lexer) THEN [p |-> Abort(t.p, "panic"), fields |-> fs]
         ELSE IF Bad(d) THEN [p |-> d, fields |-> fs]
         ELSE struct_def_loop(d, fs))))))

visit_struct_def(p) ==
    With(lexer_next(p), LAMBDA a :
    With(lexer_next(a.p), LAMBDA b :
    With(struct_def_loop(b.p, <<>>), LAMBDA l :
    With(IF peek_char(l.p.lexer) = "}" THEN lexer_next_unwrap(l.p).p ELSE l.p, LAMBDA q :
    With(StructDefNode(a.t.value, l.fields), LAMBDA node :
    IF Bad(a.p) \/ a.t = NoToken THEN None(a.p)
    ELSE IF Bad(b.p) \/ b.t = NoToken THEN None(b.p)
    ELSE IF Bad(l.p) THEN None(l.p)
    ELSE IF Bad(q) THEN None(q)
    ELSE Ret([q EXCEPT !.structs = Append(@, node)], StructDef(node)))))))

\* The end of an iteration of the loop of make_struct_instance
\* (parser.rs:736-745): [p, fields, done].
struct_instance_tail(p, fields) ==
    With(IF character(p.lexer) = "," THEN lexer_next_unwrap(p).p ELSE p, LAMBDA q :
    With(IF peek_char(q.lexer) = "}" THEN lexer_next_unwrap(q).p ELSE q, LAMBDA z :
    IF ~valid(p.lexer) THEN [p |-> Abort(p, "panic"), fields |-> fields, done |-> TRUE]
    ELSE IF Bad(q) THEN [p |-> q, fields |-> fields, done |-> TRUE]
    ELSE [p |-> z, fields |-> fields, done |-> Bad(z) \/ peek_char(q.lexer) = "}"]))

\* One field of an instance literal (parser.rs:710-734): [p, fields, done].
struct_instance_field(p, struct_def, fields) ==
    LET stop(q) == [p |-> q, fields |-> fields, done |-> TRUE]
    IN  With(lexer_next(p), LAMBDA f :
        With(lexer_next_unwrap(f.p), LAMBDA c :
        With(lexer_next_unwrap(c.p), LAMBDA d :
        With(parse_expr(d.p, d.t), LAMBDA r :
        With(Len(fields) + 1, LAMBDA i :
        IF Bad(f.p) THEN stop(f.p)
        ELSE IF f.t = NoToken THEN struct_instance_tail(f.p, fields)
        ELSE IF f.t.kind = "Ccurly" THEN stop(f.p)
        ELSE IF f.t.kind # "Ident"
        THEN stop([f.p EXCEPT !.diags = Append(@, Diag(f.t, "field"))])
        ELSE IF Bad(c.p) THEN stop(c.p)
        ELSE IF Bad(d.p) THEN stop(d.p)
        ELSE IF Bad(r.p) THEN stop(r.p)
        ELSE IF r.e = NoExpr THEN struct_instance_tail(r.p, fields)
        ELSE IF i > Len(struct_def.fields) THEN stop(Abort(r.p, "panic"))
        ELSE struct_instance_tail(r.p,
                 Append(fields, make_variable(struct_def.fields[i].name,
                                              struct_def.fields[i].type_name, r.e)))
        )))))

\* The `while self.lexer.valid()` loop of make_struct_instance: [p, fields].
struct_instance_loop(p, struct_def, fields) ==
    IF ~valid(p.lexer) THEN [p |-> p, fields |-> fields]
    ELSE With(struct_instance_field(p, struct_def, fields), LAMBDA it :
         IF it.done THEN [p |-> it.p, fields |-> it.fields]
         ELSE IF it.p = p THEN [p |-> Abort(p, "hang"), fields |-> fields]
         ELSE struct_instance_loop(it.p, struct_def, it.fields))

make_struct_instance(p, struct_def) ==
    With(lexer_next(p), LAMBDA a :
    With(struct_instance_loop(a.p, struct_def, <<>>), LAMBDA l :
    With(lexer_next_unwrap(l.p), LAMBDA s :
    With(StructInstanceNode(struct_def, l.fields), LAMBDA node :
    IF Bad(a.p) \/ a.t = NoToken THEN None(a.p)
    ELSE IF Bad(l.p) THEN None(l.p)
    ELSE IF Bad(s.p) THEN None(s.p)
    ELSE Ret([s.p EXCEPT !.struct_instances = Append(@, node)],
             StructInstance(node))))))

(***************************************************************************)
(* identifiers                                                             *)
(***************************************************************************)
\* The in-place update of a field assignment (parser.rs:570-592): every field
\* of the name, by its index in the instance the identifier resolved to, is
\* set in the first variable of that name.
field_assign_update(p, variable, name, new_value) ==
    With({j \in 1..Len(variable.value.node.fields) :
                 variable.value.node.fields[j].metadata.name = name}, LAMBDA J :
    With(find_variable(p.variables, variable.metadata.name), LAMBDA index :
    With(p.variables[index].value, LAMBDA live :
    IF index = 0 THEN Abort(p, "panic")
    ELSE IF live.kind # "StructInstance" THEN p
    ELSE IF \E j \in J : j > Len(live.node.fields) THEN Abort(p, "panic")
    ELSE [p EXCEPT !.variables[index].value.node.fields =
             [k \in 1..Len(live.node.fields) |->
                 IF k \in J THEN [live.node.fields[k] EXCEPT !.value = new_value]
                 ELSE live.node.fields[k]]])))

\* The loop over the fields of the instance (parser.rs:545-605).
struct_field_loop(p, variable, struct_field, i) ==
    With(variable.value.node.fields, LAMBDA fields :
    With(peek_char(p.lexer), LAMBDA c :
    With(peek_char_by_amount(p.lexer, 2) = "=", LAMBDA is_eq_node :
    With(lexer_next_unwrap(p), LAMBDA a :
    With(lexer_next_unwrap(a.p), LAMBDA b :
    With(parse_expr(b.p, b.t), LAMBDA r :
    With(field_assign_update(r.p, variable, fields[i].metadata.name, r.e), LAMBDA q :
    IF i > Len(fields) THEN None(p)
    ELSE IF fields[i].metadata.name # struct_field.value
    THEN struct_field_loop(p, variable, struct_field, i + 1)
    ELSE IF c = NoChar THEN struct_field_loop(p, variable, struct_field, i + 1)
    ELSE IF c = "=" /\ ~is_eq_node
    THEN IF Bad(a.p) THEN None(a.p)
         ELSE IF Bad(b.p) THEN None(b.p)
         ELSE IF Bad(r.p) THEN None(r.p)
         ELSE IF r.e = NoExpr
         THEN struct_field_loop(r.p, variable, struct_field, i + 1)
         ELSE IF Bad(q) THEN None(q)
         ELSE Ret(q, StructFieldAssign(variable, fields[i], r.e))
    ELSE Ret(p, StructFieldAccess(variable, fields[i])))))))))

visit_struct_field(p, variable) ==
    With(lexer_next(p), LAMBDA a :
    IF Bad(a.p) \/ a.t = NoToken THEN None(a.p)
    ELSE IF variable.value.kind # "StructInstance" THEN None(a.p)
    ELSE struct_field_loop(a.p, variable, a.t, 1))

(***************************************************************************)
(* impl blocks and calls through them                                      *)
(***************************************************************************)
\* The loop of visit_impl_block: [p, procedures].  Only a statement led by
\* `proc` is parsed; every other token of the block is passed over.
impl_body_loop(p, procs) ==
    With(lexer_next(p), LAMBDA a :
    With(parse_expr(a.p, a.t), LAMBDA r :
    IF Bad(a.p) \/ a.t = NoToken \/ a.t.kind = "Ccurly"
    THEN [p |-> a.p, procedures |-> procs]
    ELSE IF a.t.kind # "Proc" THEN impl_body_loop(a.p, procs)
    ELSE IF Bad(r.p) THEN [p |-> r.p, procedures |-> procs]
    ELSE impl_body_loop(r.p, IF r.e = NoExpr THEN procs ELSE Append(procs, r.e))))

visit_impl_block(p) ==
    With(lexer_next(p), LAMBDA a :
    With(find_struct(a.p.structs, a.t.value), LAMBDA s :
    With(impl_body_loop(a.p, <<>>), LAMBDA l :
    IF Bad(a.p) \/ a.t = NoToken THEN None(a.p)
    ELSE IF s = 0 THEN None(a.p)
    ELSE IF Bad(l.p) THEN None(l.p)
    ELSE Ret([l.p EXCEPT !.impl_blocks =
                             Append(@, ImplNode(l.procedures, a.p.structs[s]))],
             ImplStatement(ImplNode(l.procedures, a.p.structs[s]))))))

\* The procedure of the impl block named by a token text: its index, 0 for none.
find_impl_procedure(procs, name) ==
    FirstIndex({i \in 1..Len(procs) :
                   procs[i].kind = "ProcDef" /\ procs[i].node.name = name})

\* The argument loop of visit_struct_impl: [p, args].  The parameter at the
\* argument's position is read before the argument is parsed.
struct_impl_args_loop(p, proc_def, args) ==
    With(lexer_next(p), LAMBDA a :
    With(parse_expr(a.p, a.t), LAMBDA r :
    With(Len(args) + 1, LAMBDA i :
    IF Bad(a.p) \/ a.t = NoToken \/ a.t.kind = "Cparen" THEN [p |-> a.p, args |-> args]
    ELSE IF a.t.kind \in {"Semicolon", "Comma"}
    THEN struct_impl_args_loop(a.p, proc_def, args)
    ELSE IF i > Len(proc_def.args) THEN [p |-> Abort(a.p, "panic"), args |-> args]
    ELSE IF Bad(r.p) THEN [p |-> r.p, args |-> args]
    ELSE IF r.e = NoExpr THEN struct_impl_args_loop(r.p, proc_def, args)
    ELSE struct_impl_args_loop(r.p, proc_def,
             Append(args, make_variable(proc_def.args[i].name,
                                        proc_def.args[i].type_name, r.e))))))

\* A call through an impl block.  The first token pulled stands for the scope
\* resolution and the second is taken as the procedure's name.
visit_struct_impl(p, impl_node) ==
    With(lexer_next(p), LAMBDA a :
    With(lexer_next(a.p), LAMBDA b :
    With(find_impl_procedure(impl_node.procedures, b.t.value), LAMBDA f :
    With(lexer_next(b.p), LAMBDA c :
    With(struct_impl_args_loop(c.p, impl_node.procedures[f].node, <<>>), LAMBDA l :
    With(lexer_next_unwrap(l.p), LAMBDA s :
    IF Bad(a.p) \/ a.t = NoToken THEN None(a.p)
    ELSE IF Bad(b.p) \/ b.t = NoToken THEN None(b.p)
    ELSE IF f = 0 THEN None(b.p)
    ELSE IF Bad(c.p) \/ c.t = NoToken THEN None(c.p)
    ELSE IF Bad(l.p) THEN None(l.p)
    ELSE IF Bad(s.p) THEN None(s.p)
    ELSE Ret(s.p, ImplFunCall(impl_node,
                      FunCall(impl_node.procedures[f].node, l.args)))))))))


\* visit_binary_op applied to the result of a sub-parser.
then_binary_op(r) == IF Bad(r.p) THEN None(r.p) ELSE visit_binary_op(r.p, r.e)

Unresolved(p, token) ==
    None([p EXCEPT !.diags = Append(@, Diag(token, "identifier"))])

\* parser.rs:493-499
variable_access(p, variable) ==
    With(lexer_next_unwrap(p), LAMBDA a :
    IF ~valid(p.lexer) THEN None(Abort(p, "panic"))
    ELSE IF character(p.lexer) = "."
    THEN (IF Bad(a.p) THEN None(a.p)
          ELSE then_binary_op(visit_struct_field(a.p, variable)))
    ELSE visit_binary_op(p, Variable(variable)))

\* An assignment that also stores the new value in the variable's entry.
identifier_variable_storing(p, variable) ==
    With(lexer_next(p), LAMBDA a :
    With(lexer_next_unwrap(a.p), LAMBDA b :
    With(parse_expr(b.p, b.t), LAMBDA r :
    With(lexer_next_unwrap(r.p), LAMBDA s :
    With(find_variable(s.p.variables, variable.metadata.name), LAMBDA index :
    IF peek_char(p.lexer) # "=" THEN variable_access(p, variable)
    ELSE IF Bad(a.p) THEN None(a.p)
    ELSE IF a.t = NoToken THEN variable_access(a.p, variable)
    ELSE IF Bad(b.p) THEN None(b.p)
    ELSE IF Bad(r.p) THEN None(r.p)
    ELSE IF r.e = NoExpr THEN variable_access(r.p, variable)
    ELSE IF Bad(s.p) THEN None(s.p)
    ELSE Ret([s.p EXCEPT !.variables[index].value = r.e],
             AssignStatement(variable, r.e)))))))

\* parser.rs:472-499: an identifier that names a variable.
identifier_variable(p, variable) ==
    With(lexer_next(p), LAMBDA a :
    With(lexer_next_unwrap(a.p), LAMBDA b :
    With(parse_expr(b.p, b.t), LAMBDA r :
    With(lexer_next_unwrap(r.p), LAMBDA s :
    IF peek_char(p.lexer) # "=" THEN variable_access(p, variable)
    ELSE IF Bad(a.p) THEN None(a.p)
    ELSE IF a.t = NoToken THEN variable_access(a.p, variable)
    ELSE IF Bad(b.p) THEN None(b.p)
    ELSE IF Bad(r.p) THEN None(r.p)
    ELSE IF r.e = NoExpr THEN variable_access(r.p, variable)
    ELSE IF Bad(s.p) THEN None(s.p)
    ELSE Ret(s.p, AssignStatement(variable, r.e))))))

\* An identifier that names a struct: a call through the struct's impl block
\* when `::` follows, an instance literal otherwise.
identifier_struct(p, token, struct_def) ==
    With(find_impl(p.impl_blocks, token.value), LAMBDA b :
    IF ~valid(p.lexer) THEN None(Abort(p, "panic"))
    ELSE IF character(p.lexer) # ":"
    THEN then_binary_op(make_struct_instance(p, struct_def))
    ELSE IF peek_char(p.lexer) = ":" /\ b # 0
    THEN then_binary_op(visit_struct_impl(p, p.impl_blocks[b]))
    ELSE Unresolved(p, token))

\* A resolution that consults the procedure table before the variable table.
visit_identifier_procedures_first(p, token) ==
    With(find_variable(p.variables, token.value), LAMBDA v :
    With(find_procedure(p.procedures, token.value), LAMBDA f :
    With(find_struct(p.structs, token.value), LAMBDA s :
    IF f # 0 THEN then_binary_op(visit_procedure(p, p.procedures[f]))
    ELSE IF v # 0 THEN identifier_variable(p, p.variables[v])
    ELSE IF s # 0 THEN identifier_struct(p, token, p.structs[s])
    ELSE Unresolved(p, token))))

visit_identifier(p, token) ==
    With(find_variable(p.variables, token.value), LAMBDA v :
    With(find_procedure(p.procedures, token.value), LAMBDA f :
    With(find_struct(p.structs, token.value), LAMBDA s :
    IF v # 0 THEN identifier_variable(p, p.variables[v])
    ELSE IF f # 0 THEN then_binary_op(visit_procedure(p, p.procedures[f]))
    ELSE IF s # 0 THEN identifier_struct(p, token, p.structs[s])
    ELSE Unresolved(p, token))))

(***************************************************************************)
(* Dispatch on the leading token.                                          *)
(***************************************************************************)
parse_expr(p, token) ==
    CASE token.kind = "If" -> visit_if_statement(p)
      [] token.kind = "While" -> visit_while_statement(p)
      [] token.kind = "For" -> visit_for_loop(p)
      [] token.kind = "Let" -> visit_let_statement(p)
      [] token.kind = "Impl" -> visit_impl_block(p)
      [] token.kind = "Return" -> visit_return_statement(p)
      [] token.kind = "Proc" -> visit_procedure_def(p)
      [] token.kind = "Ident" -> visit_identifier(p, token)
      [] token.kind = "Struct" -> visit_struct_def(p)
      [] token.kind = "Literal" -> visit_binary_op(p, Literal(token, token.lt))
      [] OTHER -> None(p)

(***************************************************************************)
(* parse_program: the top-level loop.  One iteration pulls a token and     *)
(* parses the statement it leads; the loop ends when the stream returns    *)
(* None.                                                                   *)
(***************************************************************************)
NewParser(lx) ==
    [lexer |-> lx, variables |-> <<>>, procedures |-> <<>>, structs |-> <<>>,
     struct_instances |-> <<>>, impl_blocks |-> <<>>, diags |-> <<>>,
     lets |-> <<>>, abort |-> "ok"]

ParserState ==
    [lexer |-> lexer, variables |-> variables, procedures |-> procedures,
     structs |-> structs, struct_instances |-> struct_instances,
     impl_blocks |-> impl_blocks, diags |-> diags, lets |-> lets, abort |-> "ok"]

Install(p) ==
    /\ lexer' = p.lexer
    /\ variables' = p.variables
    /\ procedures' = p.procedures
    /\ structs' = p.structs
    /\ struct_instances' = p.struct_instances
    /\ impl_blocks' = p.impl_blocks
    /\ diags' = p.diags
    /\ lets' = p.lets

\* One iteration of the loop of parse_program.
parse_iteration(p, prog) ==
    With(lexer_next(p), LAMBDA a :
    With(IF Bad(a.p) \/ a.t = NoToken THEN None(a.p) ELSE parse_expr(a.p, a.t), LAMBDA r :
    [p |-> r.p,
     program |-> IF r.e = NoExpr THEN prog ELSE Append(prog, r.e),
     status |-> IF Bad(r.p) THEN r.p.abort
                ELSE IF a.t = NoToken THEN "done" ELSE "running"]))

RECURSIVE parse_loop(_, _)
parse_loop(p, prog) ==
    With(parse_iteration(p, prog), LAMBDA r :
    IF r.status = "running" THEN parse_loop(r.p, r.program) ELSE r)

\* The whole parse of one source text.
parse_program(source) == parse_loop(NewParser(NewLexer(source)), <<>>)

ParseStep ==
    /\ status = "running"
    /\ \E r \in {parse_iteration(ParserState, program)} :
           /\ Install(r.p)
           /\ program' = r.program
           /\ status' = r.status
    /\ UNCHANGED tokens

(***************************************************************************)
(* The source texts given to Parser::new.  Each family is built from       *)
(* statements of the language; every text is a complete buffer.            *)
(***************************************************************************)
\* `proc f(x: i32) { `
ProcOpener ==
    <<"p", "r", "o", "c", " ", "f", "(", "x", ":", " ", "i", "3", "2",
    ")", " ", "{", " ">>

\* `if true { `
IfOpener ==
    <<"i", "f", " ", "t", "r", "u", "e", " ", "{", " ">>

\* `} `
Closer ==
    <<"}", " ">>

\* `x; `
UseX ==
    <<"x", ";", " ">>

\* `let y = x; `
LetYX ==
    <<"l", "e", "t", " ", "y", " ", "=", " ", "x", ";", " ">>

\* `q; `: q is never declared
BadQ ==
    <<"q", ";", " ">>

\* `let x = 1; `
LetX ==
    <<"l", "e", "t", " ", "x", " ", "=", " ", "1", ";", " ">>

\* `let a = 1; `
LetA ==
    <<"l", "e", "t", " ", "a", " ", "=", " ", "1", ";", " ">>

\* the struct P and its instance p
StructPrelude ==
    <<"s", "t", "r", "u", "c", "t", " ", "P", " ", "{", " ", "x", ":",
    " ", "i", "3", "2", ",", " ", "y", ":", " ", "i", "3", "2", " ",
    "}", "\n", "l", "e", "t", " ", "p", " ", "=", " ", "P", " ", "{",
    " ", "x", ":", " ", "1", ",", " ", "y", ":", " ", "2", " ", "}",
    ";", "\n">>

\* `p.x = 5;`
AssignPX ==
    <<"p", ".", "x", " ", "=", " ", "5", ";", "\n">>

\* `p.y = 7;`
AssignPY ==
    <<"p", ".", "y", " ", "=", " ", "7", ";", "\n">>

\* `let z = p.x;`
LetZPX ==
    <<"l", "e", "t", " ", "z", " ", "=", " ", "p", ".", "x", ";", "\n">>

\* `proc g(p: P) { }`
ProcGP ==
    <<"p", "r", "o", "c", " ", "g", "(", "p", ":", " ", "P", ")", " ",
    "{", " ", "}", "\n">>

\* `p.x;` with nothing after it
AccessPX ==
    <<"p", ".", "x", ";">>

\* a program that uses every construct once
BaseProgram ==
    <<"l", "e", "t", " ", "x", ":", " ", "i", "3", "2", " ", "=", " ",
    "1", ";", "\n", "p", "r", "o", "c", " ", "f", "(", "a", ":", " ",
    "i", "3", "2", ")", ":", " ", "i", "3", "2", " ", "{", " ", "r",
    "e", "t", "u", "r", "n", " ", "a", ";", " ", "}", "\n", "s", "t",
    "r", "u", "c", "t", " ", "P", " ", "{", " ", "x", ":", " ", "i",
    "3", "2", " ", "}", "\n", "l", "e", "t", " ", "p", " ", "=", " ",
    "P", " ", "{", " ", "x", ":", " ", "1", " ", "}", ";", "\n", "p",
    ".", "x", " ", "=", " ", "2", ";", "\n", "l", "e", "t", " ", "r",
    " ", "=", " ", "f", "(", "x", ")", ";", "\n", "i", "f", " ", "t",
    "r", "u", "e", " ", "{", " ", "x", " ", "=", " ", "3", ";", " ",
    "}", "\n">>

\* `let f = 1;`
LetF ==
    <<"l", "e", "t", " ", "f", " ", "=", " ", "1", ";", "\n">>

\* `proc f() { }`
ProcF0 ==
    <<"p", "r", "o", "c", " ", "f", "(", ")", " ", "{", " ", "}", "\n">>

\* `proc f(a: i32) { }`
ProcF1 ==
    <<"p", "r", "o", "c", " ", "f", "(", "a", ":", " ", "i", "3", "2", ")",
    " ", "{", " ", "}", "\n">>

\* `proc f(a: i32, b: bool) { }`
ProcF2 ==
    <<"p", "r", "o", "c", " ", "f", "(", "a", ":", " ", "i", "3", "2", ",",
    " ", "b", ":", " ", "b", "o", "o", "l", ")", " ", "{", " ", "}",
    "\n">>

\* `struct f { x: i32 }`
StructF ==
    <<"s", "t", "r", "u", "c", "t", " ", "f", " ", "{", " ", "x", ":", " ",
    "i", "3", "2", " ", "}", "\n">>

\* `struct f { y: i32, z: i32 }`
StructF2 ==
    <<"s", "t", "r", "u", "c", "t", " ", "f", " ", "{", " ", "y", ":", " ",
    "i", "3", "2", ",", " ", "z", ":", " ", "i", "3", "2", " ", "}",
    "\n">>

\* `f();`
CallF0 ==
    <<"f", "(", ")", ";", "\n">>

\* `f(1);`
CallF1 ==
    <<"f", "(", "1", ")", ";", "\n">>

\* `f(1, 2);`
CallF2 ==
    <<"f", "(", "1", ",", " ", "2", ")", ";", "\n">>

\* `struct P { x: i32, y: bool }`
StructP2 ==
    <<"s", "t", "r", "u", "c", "t", " ", "P", " ", "{", " ", "x", ":", " ",
    "i", "3", "2", ",", " ", "y", ":", " ", "b", "o", "o", "l", " ", "}",
    "\n">>

\* `P { x: 1, y: true };`
LitFull ==
    <<"P", " ", "{", " ", "x", ":", " ", "1", ",", " ", "y", ":", " ", "t",
    "r", "u", "e", " ", "}", ";", "\n">>

\* `P { x: 1 };`
LitFewer ==
    <<"P", " ", "{", " ", "x", ":", " ", "1", " ", "}", ";", "\n">>

\* `P { y: true, x: 1 };`
LitSwapped ==
    <<"P", " ", "{", " ", "y", ":", " ", "t", "r", "u", "e", ",", " ", "x",
    ":", " ", "1", " ", "}", ";", "\n">>

\* `P { x: 1, y: true, z: 3 };`
LitMore ==
    <<"P", " ", "{", " ", "x", ":", " ", "1", ",", " ", "y", ":", " ", "t",
    "r", "u", "e", ",", " ", "z", ":", " ", "3", " ", "}", ";", "\n">>

\* `P { };`
LitEmpty ==
    <<"P", " ", "{", " ", "}", ";", "\n">>

\* `let p = `
LetP ==
    <<"l", "e", "t", " ", "p", " ", "=", " ">>

\* `p.y;`
AccessPY ==
    <<"p", ".", "y", ";", "\n">>

\* `impl P { proc m() { } }`
ImplP ==
    <<"i", "m", "p", "l", " ", "P", " ", "{", " ", "p", "r", "o", "c", " ",
    "m", "(", ")", " ", "{", " ", "}", " ", "}", "\n">>

\* `P::m();`
CallPM ==
    <<"P", ":", ":", "m", "(", ")", ";", "\n">>

\* a struct definition that meets a character the lexer has no token for
OpenStructDef ==
    <<"s", "t", "r", "u", "c", "t", " ", "S", " ", "{", " ", "@">>

\* an instance literal that meets such a character
OpenStructInstance ==
    <<"s", "t", "r", "u", "c", "t", " ", "S", " ", "{", " ", "x", ":",
    " ", "i", "3", "2", " ", "}", "\n", "l", "e", "t", " ", "s", " ",
    "=", " ", "S", " ", "{", " ", "@", " ", "}", ";", "\n">>

RECURSIVE Concat(_)
Concat(ss) == IF ss = <<>> THEN <<>> ELSE Head(ss) \o Concat(Tail(ss))

SeqsUpTo(S, n) == UNION {[1..k -> S] : k \in 0..n}

\* Statements at top level, in a procedure body or in an if body, followed
\* or not by a reference to x.
MaxBody == 3

Blocks == {<<<<>>, <<>>>>, <<ProcOpener, Closer>>, <<IfOpener, Closer>>}

BodyPool == {LetYX, BadQ, UseX, LetX, LetA}

NestSources ==
    {b[1] \o Concat(body) \o b[2] \o after :
        b \in Blocks, body \in SeqsUpTo(BodyPool, MaxBody), after \in {<<>>, UseX}}

\* Field assignments and accesses on the instance p.
MaxStmts == 3

StructPool == {AssignPX, AssignPY, LetZPX, ProcGP}

StructSources ==
    {StructPrelude \o Concat(ss) \o tail :
        ss \in SeqsUpTo(StructPool, MaxStmts), tail \in {<<>>, AccessPX}}

\* Operator chains e0 op1 e1 ... of at most MaxChain operators, written with
\* or without blanks around the operators, after the declaration of a.
MaxChain == 2

Operands == {"1", "2", "3", "a"}

ChainOps == {"+", "*"}

Chains ==
    {[first |-> e0, rest |-> r] :
        e0 \in Operands, r \in SeqsUpTo(ChainOps \X Operands, MaxChain)}

RECURSIVE ChainRest(_, _)
ChainRest(rest, sep) ==
    IF rest = <<>> THEN <<>>
    ELSE sep \o <<Head(rest)[1]>> \o sep \o <<Head(rest)[2]>>
           \o ChainRest(Tail(rest), sep)

ChainText(c, sep, end) == LetA \o <<c.first>> \o ChainRest(c.rest, sep) \o end

Separators == {<<>>, <<" ">>}

Terminators == {<<>>, <<";", " ">>}

ChainSources ==
    {ChainText(c, sep, end) : c \in Chains, sep \in Separators, end \in Terminators}

\* Declarations of the one name f as a variable, as procedures of zero, one
\* and two parameters and as structs, and calls of f with zero, one and two
\* arguments, in every order.
MaxDecls == 3

DeclPool ==
    {LetF, ProcF0, ProcF1, ProcF2, StructF, StructF2, CallF0, CallF1, CallF2}

DeclSources == {Concat(ss) : ss \in SeqsUpTo(DeclPool, MaxDecls)}

\* Instance literals of the struct P of two fields, bound to p or not, and
\* followed or not by a read of the field y.
Literals == {LitFull, LitFewer, LitSwapped, LitMore, LitEmpty}

LiteralSources ==
    {StructP2 \o binder \o lit \o after :
        binder \in {<<>>, LetP}, lit \in Literals, after \in {<<>>, AccessPY}}

\* declarations of b: bool, n: i32, g(): bool, h(): i32 and the instance p of P
CondPrelude ==
    <<"l", "e", "t", " ", "b", " ", "=", " ", "t", "r", "u", "e", ";",
    "\n", "l", "e", "t", " ", "n", " ", "=", " ", "1", ";", "\n", "p",
    "r", "o", "c", " ", "g", "(", ")", ":", " ", "b", "o", "o", "l", " ",
    "{", " ", "r", "e", "t", "u", "r", "n", " ", "t", "r", "u", "e", ";",
    " ", "}", "\n", "p", "r", "o", "c", " ", "h", "(", ")", ":", " ",
    "i", "3", "2", " ", "{", " ", "r", "e", "t", "u", "r", "n", " ", "1",
    ";", " ", "}", "\n", "s", "t", "r", "u", "c", "t", " ", "P", " ",
    "{", " ", "x", ":", " ", "i", "3", "2", ",", " ", "y", ":", " ", "b",
    "o", "o", "l", " ", "}", "\n", "l", "e", "t", " ", "p", " ", "=",
    " ", "P", " ", "{", " ", "x", ":", " ", "1", ",", " ", "y", ":", " ",
    "t", "r", "u", "e", " ", "}", ";", "\n">>

\* `if `
IfWord ==
    <<"i", "f", " ">>

\* `while `
WhileWord ==
    <<"w", "h", "i", "l", "e", " ">>

\* ` { }`
EmptyBody ==
    <<" ", "{", " ", "}", "\n">>

\* ` { let z = 1; }`
LetBody ==
    <<" ", "{", " ", "l", "e", "t", " ", "z", " ", "=", " ", "1", ";", " ",
    "}", "\n">>

\* `n;`
UseN ==
    <<"n", ";", "\n">>

\* The conditions: literals, variables, calls, a field access, a comparison,
\* an undeclared name and a declaration.
Conditions ==
    {<<"t", "r", "u", "e">>,
     <<"1">>,
     <<"\"", "s", "\"">>,
     <<"b">>,
     <<"n">>,
     <<"g", "(", ")">>,
     <<"h", "(", ")">>,
     <<"p", ".", "y">>,
     <<"1", " ", "<", " ", "2">>,
     <<"q">>,
     <<"l", "e", "t", " ", "t", " ", "=", " ", "t", "r", "u", "e">>}

\* if and while statements over each condition, after the declarations.
CondSources ==
    {CondPrelude \o word \o cond \o body \o after :
        word \in {IfWord, WhileWord}, cond \in Conditions,
        body \in {EmptyBody, LetBody}, after \in {<<>>, UseN}}

\* `let m: T = v;` for each type name T and each value v, after the
\* declarations; a value is written with the type name it has.
HintTypes ==
    {S_i32, S_bool, S_f32, S_String, S_char, <<"P">>}

TypedValues ==
    {<<<<"1">>,
       S_i32>>,
     <<<<"t", "r", "u", "e">>,
       S_bool>>,
     <<<<"1", ".", "5">>,
       S_f32>>,
     <<<<"\"", "s", "\"">>,
       S_String>>,
     <<<<"'", "c", "'">>,
       S_char>>,
     <<<<"b">>,
       S_bool>>,
     <<<<"n">>,
       S_i32>>,
     <<<<"g", "(", ")">>,
       S_bool>>,
     <<<<"h", "(", ")">>,
       S_i32>>,
     <<<<"P", " ", "{", " ", "x", ":", " ", "1", ",", " ", "y", ":", " ", "t",
    "r", "u", "e", " ", "}">>,
       <<"P">>>>}

HintText(type_name, value) ==
    CondPrelude \o <<"l", "e", "t", " ", "m", ":", " ">> \o type_name
        \o <<" ", "=", " ">> \o value \o <<";", "\n">>

HintSources ==
    {HintText(type_name, tv[1]) : type_name \in HintTypes, tv \in TypedValues}

\* Texts that stop in the middle of a construct.
Prefixes(s) == {SubSeq(s, 1, n) : n \in 0..Len(s)}

\* a for loop over c whose body declares z from c
ForProgram ==
    <<"l", "e", "t", " ", "n", " ", "=", " ", "1", ";", "\n", "f", "o",
    "r", " ", "c", " ", "i", "n", " ", "0", ".", ".", "3", " ", "{", " ",
    "l", "e", "t", " ", "z", " ", "=", " ", "c", ";", " ", "}", "\n",
    "n", ";", "\n">>

\* a for loop whose end expression is an undeclared name
ForBadEnd ==
    <<"f", "o", "r", " ", "c", " ", "i", "n", " ", "0", ".", ".", "q", " ",
    "{", " ", "}", "\n">>

\* for loops, whole and cut short.
ForSources == Prefixes(ForProgram) \cup Prefixes(ForBadEnd)

\* a procedure whose parameter has the name of an earlier variable
ShadowProgram ==
    <<"l", "e", "t", " ", "x", " ", "=", " ", "1", ";", "\n", "p", "r",
    "o", "c", " ", "f", "(", "x", ":", " ", "f", "3", "2", ")", " ", "{",
    " ", "}", "\n", "x", ";", "\n">>

\* Declarations that reuse a name, whole and cut short.
ShadowSources == Prefixes(ShadowProgram)

\* `let x = 1;`
LetX1 ==
    <<"l", "e", "t", " ", "x", " ", "=", " ", "1", ";", "\n">>

\* `x = 2;`
AssignX ==
    <<"x", " ", "=", " ", "2", ";", "\n">>

\* `x == 1;`
EqualX ==
    <<"x", " ", "=", "=", " ", "1", ";", "\n">>

\* `x;`
ReadX ==
    <<"x", ";", "\n">>

\* `u = 3;`: u is never declared
AssignU ==
    <<"u", " ", "=", " ", "3", ";", "\n">>

\* `let y = x;`
LetYFromX ==
    <<"l", "e", "t", " ", "y", " ", "=", " ", "x", ";", "\n">>

\* Declarations, assignments, comparisons and reads of x, in every order.
MaxAssigns == 3

AssignPool == {LetX1, AssignX, EqualX, ReadX, AssignU, LetYFromX}

AssignSources == {Concat(ss) : ss \in SeqsUpTo(AssignPool, MaxAssigns)}

\* a procedure that calls itself in its body, and a call of it
SelfProgram ==
    <<"p", "r", "o", "c", " ", "f", "(", ")", " ", "{", " ", "f", "(", ")",
    ";", " ", "}", "\n", "f", "(", ")", ";", "\n">>

\* the same with a declaration before the call in the body
SelfAfterLet ==
    <<"p", "r", "o", "c", " ", "f", "(", ")", " ", "{", " ", "l", "e", "t",
    " ", "a", " ", "=", " ", "1", ";", " ", "f", "(", ")", ";", " ", "}",
    "\n", "f", "(", ")", ";", "\n">>

\* Procedures that call themselves, whole and cut short.
SelfSources == Prefixes(SelfProgram) \cup Prefixes(SelfAfterLet)

\* a procedure with a parameter of a struct type that holds a struct, read in its body
DefaultsProgram ==
    <<"s", "t", "r", "u", "c", "t", " ", "Q", " ", "{", " ", "c", ":", " ",
    "c", "h", "a", "r", ",", " ", "b", ":", " ", "b", "o", "o", "l", " ",
    "}", "\n", "s", "t", "r", "u", "c", "t", " ", "S", " ", "{", " ",
    "q", ":", " ", "Q", ",", " ", "n", ":", " ", "i", "3", "2", " ", "}",
    "\n", "p", "r", "o", "c", " ", "f", "(", "a", ":", " ", "S", ",",
    " ", "e", ":", " ", "f", "3", "2", ",", " ", "t", ":", " ", "S", "t",
    "r", "i", "n", "g", ")", " ", "{", " ", "a", ";", " ", "e", ";", " ",
    "t", ";", " ", "}", "\n">>

\* a parameter of a struct type that has a field of its own type
SelfStruct ==
    <<"s", "t", "r", "u", "c", "t", " ", "S", " ", "{", " ", "s", ":", " ",
    "S", " ", "}", "\n", "p", "r", "o", "c", " ", "f", "(", "a", ":",
    " ", "S", ")", " ", "{", " ", "}", "\n">>

\* a parameter of a struct type that holds itself through another struct
MutualStructs ==
    <<"s", "t", "r", "u", "c", "t", " ", "P", " ", "{", " ", "q", ":", " ",
    "Q", " ", "}", "\n", "s", "t", "r", "u", "c", "t", " ", "Q", " ",
    "{", " ", "p", ":", " ", "P", " ", "}", "\n", "p", "r", "o", "c",
    " ", "f", "(", "a", ":", " ", "P", ")", " ", "{", " ", "}", "\n">>

\* Procedures with parameters of struct types, whole and cut short.
StructTypeSources ==
    Prefixes(DefaultsProgram) \cup Prefixes(SelfStruct) \cup Prefixes(MutualStructs)

\* An impl block of the struct P and a call through it.
ImplSources == Prefixes(StructP2 \o ImplP \o CallPM)

Sources ==
    NestSources \cup StructSources \cup ChainSources \cup Prefixes(BaseProgram)
        \cup {OpenStructDef, OpenStructInstance}
        \cup DeclSources \cup LiteralSources \cup ImplSources
        \cup CondSources \cup HintSources \cup ForSources
        \cup ShadowSources \cup AssignSources
        \cup SelfSources \cup StructTypeSources

Init ==
    /\ lexer \in {NewLexer(s) : s \in Sources}
    /\ tokens = <<>>
    /\ status = "running"
    /\ NoParserState

Next == ParseStep

Spec == Init /\ [][Next]_vars

(***************************************************************************)
(* Properties of the token stream (LexSpec).                               *)
(***************************************************************************)
LastToken == tokens[Len(tokens)]

\* The number of characters a token covers in the buffer.
Width(t) ==
    IF t.kind = "Literal" /\ t.lt = "String" THEN Len(t.value) + 2
    ELSE IF t.kind = "Literal" /\ t.lt = "Char" THEN 3
    ELSE Len(t.value)

\* While the consumer is running, the cursor stands right behind the token
\* returned last, so that token starts Width characters before it.
LastStart == lexer.cursor - Width(LastToken)

FoldOperatorKinds == {"Assign", "Eq", "Lt", "Lte", "Gt", "Gte", "Neg", "Ne"}

RefNarrow(c) == CASE c = "=" -> "Assign" [] c = "<" -> "Lt" [] c = ">" -> "Gt" [] c = "!" -> "Neg"
RefWide(c) == CASE c = "=" -> "Eq" [] c = "<" -> "Lte" [] c = ">" -> "Gte" [] c = "!" -> "Ne"

\* The token sequence the folding rule prescribes for a buffer made of the
\* four foldable characters and blanks only.
RECURSIVE FoldOps(_)
FoldOps(s) ==
    IF s = <<>> THEN <<>>
    ELSE IF Head(s) = " " THEN FoldOps(Tail(s))
    ELSE IF Len(s) >= 2 /\ s[2] = "="
    THEN <<[kind |-> RefWide(s[1]), value |-> <<s[1], "=">>]>>
           \o FoldOps(SubSeq(s, 3, Len(s)))
    ELSE <<[kind |-> RefNarrow(s[1]), value |-> <<s[1]>>]>> \o FoldOps(Tail(s))

KindsAndTexts(ts) == [i \in 1..Len(ts) |-> [kind |-> ts[i].kind, value |-> ts[i].value]]

CharsOf(s) == {s[i] : i \in 1..Len(s)}

\* C7: a token that starts at `=`, `<`, `>` or `!` is the two-character token
\* Eq, Lte, Gte, Ne exactly when the next character is `=`, and the
\* one-character token Assign, Lt, Gt, Neg otherwise; a buffer of such
\* characters and blanks tokenizes to the folded sequence, the `=` of a folded
\* pair never appearing as an Assign of its own.
C7_OperatorFolding ==
    /\ (status = "running" /\ tokens # <<>> /\ LastToken.kind \in FoldOperatorKinds) =>
          /\ LastStart >= 0
          /\ LET c == lexer.chars[LastStart + 1]
                 followed == LastStart + 2 <= Len(lexer.chars)
                               /\ lexer.chars[LastStart + 2] = "="
             IN  /\ c \in {"=", "<", ">", "!"}
                 /\ IF followed
                    THEN LastToken.kind = RefWide(c) /\ LastToken.value = <<c, "=">>
                    ELSE LastToken.kind = RefNarrow(c) /\ LastToken.value = <<c>>
    /\ (status # "running" /\ CharsOf(lexer.chars) \subseteq {"=", "<", ">", "!", " "}) =>
          /\ status = "exhausted"
          /\ KindsAndTexts(tokens) = FoldOps(lexer.chars)

C7_Witness ==
    /\ status = "exhausted"
    /\ lexer.chars = <<"<", "=", "=", "=">>
    /\ KindsAndTexts(tokens) = <<[kind |-> "Lte", value |-> <<"<", "=">>],
                                 [kind |-> "Eq", value |-> <<"=", "=">>]>>

IsDigitRun(s) ==
    /\ s # <<>>
    /\ CharsOf(s) \subseteq Digits \cup {"."}
    /\ s[1] \in Digits /\ s[Len(s)] \in Digits
    /\ Cardinality({i \in 1..Len(s) : s[i] = "."}) <= 1

\* C8: a buffer that is one digit run, with at most one embedded `.`, yields
\* exactly one literal token, Number without and Float with the `.`, whose text
\* is the run, and then the stream is exhausted.
C8_NumericClassification ==
    (IsDigitRun(lexer.chars) /\ status # "running") =>
        /\ status = "exhausted"
        /\ Len(tokens) = 1
        /\ tokens[1].kind = "Literal"
        /\ tokens[1].lt = (IF "." \in CharsOf(lexer.chars) THEN "Float" ELSE "Number")
        /\ tokens[1].value = lexer.chars

\* C9: the buffer `a <= b` yields Ident a, Lte <=, Ident b and then exhaustion,
\* and a buffer that is a single identifier yields that identifier.
C9_TrailingIdentifier ==
    /\ (lexer.chars = <<"a", " ", "<", "=", " ", "b">> /\ status # "running") =>
          /\ status = "exhausted"
          /\ KindsAndTexts(tokens) = <<[kind |-> "Ident", value |-> <<"a">>],
                                       [kind |-> "Lte", value |-> <<"<", "=">>],
                                       [kind |-> "Ident", value |-> <<"b">>]>>
    /\ (lexer.chars # <<>> /\ CharsOf(lexer.chars) \subseteq {"a", "b"}
          /\ status # "running") =>
          /\ status = "exhausted"
          /\ KindsAndTexts(tokens) = <<[kind |-> "Ident", value |-> lexer.chars]>>

NewlinesBefore(s, n) == Cardinality({i \in 1..n : s[i] = "\n"})

\* The offset of the first character of the line that holds offset n.
LineStartOf(s, n) ==
    LET nl == {i \in 1..n : s[i] = "\n"}
    IN  IF nl = {} THEN 0 ELSE CHOOSE i \in nl : \A j \in nl : j <= i

\* C10: rows never decrease along the token stream, and a token's row and
\* column are the number of newlines before its first character and the offset
\* of that character in its line.
C10_LineRelativePositions ==
    /\ \A i, j \in 1..Len(tokens) : i <= j => tokens[i].row <= tokens[j].row
    /\ (status = "running" /\ tokens # <<>>) =>
          /\ LastToken.row = NewlinesBefore(lexer.chars, LastStart)
          /\ LastToken.col = LastStart - LineStartOf(lexer.chars, LastStart)

(***************************************************************************)
(* Properties of the parse (Spec).                                         *)
(***************************************************************************)
StartsWith(s, pre) == Len(s) >= Len(pre) /\ SubSeq(s, 1, Len(pre)) = pre

EndsWith(s, suf) ==
    Len(s) >= Len(suf) /\ SubSeq(s, Len(s) - Len(suf) + 1, Len(s)) = suf

\* The places (1-based) where pat occurs in s.
Positions(s, pat) ==
    {i \in 1..Len(s) : i + Len(pat) - 1 <= Len(s)
                        /\ SubSeq(s, i, i + Len(pat) - 1) = pat}

FirstCloser(s) ==
    CHOOSE i \in 1..Len(s) : s[i] = "}" /\ \A j \in 1..(i - 1) : s[j] # "}"

UnresolvedAt(name, lo, hi) ==
    \E i \in 1..Len(diags) :
        /\ diags[i].what = "identifier" /\ diags[i].text = name
        /\ diags[i].row = 0 /\ diags[i].col >= lo /\ diags[i].col <= hi

\* C1: the parameter x of `proc f(x: i32) { ... }` is resolvable in every
\* statement of the body (no unresolved-identifier diagnostic for x comes
\* from the text before the body's closing brace), and a reference to x
\* right after the definition is unresolved (when no let declares an x).
C1_ParameterScope ==
    (status = "done" /\ StartsWith(lexer.chars, ProcOpener)
        /\ "}" \in CharsOf(lexer.chars))
    => /\ ~UnresolvedAt(<<"x">>, 0, FirstCloser(lexer.chars) - 1)
       /\ (EndsWith(lexer.chars, Closer \o UseX)
             /\ Positions(lexer.chars, LetX) = {})
          => UnresolvedAt(<<"x">>, FirstCloser(lexer.chars), Len(lexer.chars))

IsAssignTo(e, f) == e.kind = "StructFieldAssign" /\ e.field.metadata.name = f

\* The field access a statement consists of, if any.
AccessOf(e) ==
    IF e.kind = "StructFieldAccess" THEN e
    ELSE IF e.kind = "LetStatement" /\ e.value.kind = "StructFieldAccess"
    THEN e.value ELSE NoExpr

IsAccessTo(e, f) == AccessOf(e) # NoExpr /\ AccessOf(e).field.metadata.name = f

\* A field access that follows an assignment to the same field of p, with no
\* other assignment to that field in between, carries the assigned value.
AccessYieldsAssigned ==
    \A i, j \in 1..Len(program) : \A f \in {<<"x">>, <<"y">>} :
        (/\ i < j
         /\ IsAssignTo(program[i], f)
         /\ IsAccessTo(program[j], f)
         /\ \A k \in (i + 1)..(j - 1) : ~IsAssignTo(program[k], f))
        => AccessOf(program[j]).field.value = program[i].new_value

\* The field access `p.x;` written after an assignment to p.x yields a
\* FieldAccessNode.
AccessYieldsNode ==
    (/\ status = "done"
     /\ StartsWith(lexer.chars, StructPrelude)
     /\ Positions(lexer.chars, AssignPX) # {}
     /\ EndsWith(lexer.chars, AccessPX))
    => /\ program # <<>>
       /\ IsAccessTo(program[Len(program)], <<"x">>)

\* C2: once `p.f = v;` has been parsed, every later field access `p.f`
\* yields a FieldAccessNode whose field value is v.
C2_FieldRoundTrip == AccessYieldsAssigned /\ AccessYieldsNode

\* The text with its one statement `q;` replaced by blanks: every other
\* statement keeps its place.
Blank(s) ==
    [i \in 1..Len(s) |->
        IF \E k \in Positions(s, BadQ) : i \in {k, k + 1} THEN " " ELSE s[i]]

\* C3: a text with one statement that references the undeclared q, and that
\* parses without a diagnostic once that statement is taken out, parses with
\* exactly one diagnostic and into the same nodes.
C3_BestEffortRecovery ==
    (status = "done" /\ Cardinality(Positions(lexer.chars, BadQ)) = 1)
    => LET ref == parse_program(Blank(lexer.chars))
       IN  (ref.status = "done" /\ ref.p.diags = <<>>)
           => (Len(diags) = 1 /\ program = ref.program)

\* The operators and operands of an expression, without token positions.
RECURSIVE Shape(_)
Shape(e) ==
    CASE e.kind = "BinaryOp" ->
            [op |-> e.op, lhs |-> Shape(e.lhs), rhs |-> Shape(e.rhs)]
      [] e.kind = "Literal" -> e.token.value
      [] e.kind = "Variable" -> e.node.metadata.name
      [] OTHER -> <<e.kind>>

OpKind(c) == IF c = "+" THEN "Add" ELSE "Mul"

RECURSIVE LeftFold(_, _)
LeftFold(acc, rest) ==
    IF rest = <<>> THEN acc
    ELSE LeftFold([op |-> OpKind(Head(rest)[1]), lhs |-> acc,
                   rhs |-> <<Head(rest)[2]>>], Tail(rest))

\* C4: the statement `e0 op1 e1 op2 e2 ...` parses into the left fold of its
\* operands: the node of opK has the fold of everything before it as lhs and
\* eK as rhs.
C4_LeftFold ==
    \A c \in Chains, sep \in Separators, end \in Terminators :
        (lexer.chars = ChainText(c, sep, end) /\ status # "running")
        => /\ Len(program) = 2
           /\ Shape(program[2]) = LeftFold(<<c.first>>, c.rest)

\* C5: no step of the parse aborts: no failed unwrap, no index out of
\* range, no panic, whatever the text.
C5_NeverAborts == status \notin {"panic", "overflow"}

\* C6: no loop of the parser repeats without consuming a character.
C6_Terminates == status # "hang"

(***************************************************************************)
(* Further properties of the token stream (LexSpec).                       *)
(***************************************************************************)
\* The characters from the cursor to the end of the buffer.
Rest == SubSeq(lexer.chars, lexer.cursor + 1, Len(lexer.chars))

\* s from its first newline on (the newline kept), empty without one.
RECURSIVE FromNewline(_)
FromNewline(s) ==
    IF s = <<>> \/ Head(s) = "\n" THEN s ELSE FromNewline(Tail(s))

StartsComment(s) == Len(s) >= 2 /\ s[1] = "/" /\ s[2] = "/"

RECURSIVE OnlyBlanksAndComments(_)
OnlyBlanksAndComments(s) ==
    IF s = <<>> THEN TRUE
    ELSE IF is_ascii_whitespace(Head(s)) THEN OnlyBlanksAndComments(Tail(s))
    ELSE IF StartsComment(s) THEN OnlyBlanksAndComments(FromNewline(s))
    ELSE FALSE

\* C11: the stream returns no token only when everything from the cursor to
\* the end of the buffer is whitespace or line comments.
C11_Exhaustion == (status = "exhausted") => OnlyBlanksAndComments(Rest)

\* The buffer with every `//`-to-end-of-line span deleted, newlines kept.
RECURSIVE StripComments(_)
StripComments(s) ==
    IF s = <<>> THEN <<>>
    ELSE IF StartsComment(s) THEN StripComments(FromNewline(s))
    ELSE <<Head(s)>> \o StripComments(Tail(s))

\* C12: a buffer without quotes tokenizes to the same kinds and texts as the
\* buffer with its line comments deleted (where that buffer tokenizes to the
\* end).
C12_CommentsTransparent ==
    (status # "running" /\ CharsOf(lexer.chars) \cap {"\"", "'"} = {})
    => LET ref == lex_all(StripComments(lexer.chars))
       IN  ref.status = "exhausted"
           => /\ status = "exhausted"
              /\ KindsAndTexts(tokens) = KindsAndTexts(ref.tokens)

KeywordWords ==
    {<<"l", "e", "t">>,
     <<"p", "r", "o", "c">>,
     <<"s", "t", "r", "u", "c", "t">>,
     <<"i", "m", "p", "l">>,
     <<"i", "f">>,
     <<"w", "h", "i", "l", "e">>,
     <<"f", "o", "r">>,
     <<"i", "n">>,
     <<"r", "e", "t", "u", "r", "n">>}

RefKeywordKind(word) ==
    CASE word = <<"l", "e", "t">> -> "Let"
      [] word = <<"p", "r", "o", "c">> -> "Proc"
      [] word = <<"s", "t", "r", "u", "c", "t">> -> "Struct"
      [] word = <<"i", "m", "p", "l">> -> "Impl"
      [] word = <<"i", "f">> -> "If"
      [] word = <<"w", "h", "i", "l", "e">> -> "While"
      [] word = <<"f", "o", "r">> -> "For"
      [] word = <<"i", "n">> -> "In"
      [] word = <<"r", "e", "t", "u", "r", "n">> -> "Return"

BoolWords == {<<"t", "r", "u", "e">>, <<"f", "a", "l", "s", "e">>}

\* A token scanned from a word: it starts with a letter or `_` and is no
\* string or character literal.
IsWord(t) ==
    /\ t.value # <<>>
    /\ (is_ascii_alphabetic(t.value[1]) \/ t.value[1] = "_")
    /\ ~(t.kind = "Literal" /\ t.lt \in {"String", "Char"})

\* C13: each keyword is tokenized with its own kind, and every other word
\* except `true` and `false` as Ident.
C13_KeywordClassification ==
    \A i \in 1..Len(tokens) :
        IsWord(tokens[i])
        => IF tokens[i].value \in KeywordWords
           THEN tokens[i].kind = RefKeywordKind(tokens[i].value)
           ELSE (tokens[i].value \notin BoolWords => tokens[i].kind = "Ident")

Count(s, c) == Cardinality({i \in 1..Len(s) : s[i] = c})

\* C14: a buffer that opens a string literal and never closes it tokenizes
\* to one String literal holding the remaining characters, and the stream is
\* then exhausted.
C14_UnterminatedString ==
    (/\ status # "running"
     /\ lexer.chars # <<>>
     /\ Head(lexer.chars) = "\""
     /\ Count(lexer.chars, "\"") = 1)
    => /\ status = "exhausted"
       /\ KindsAndTexts(tokens)
            = <<[kind |-> "Literal", value |-> Tail(lexer.chars)]>>

\* C15: the text of a Number or Float token holds at most one `.`.
C15_OneDecimalPoint ==
    \A i \in 1..Len(tokens) :
        (tokens[i].kind = "Literal" /\ tokens[i].lt \in {"Number", "Float"})
        => Count(tokens[i].value, ".") <= 1

(***************************************************************************)
(* Properties of identifier resolution and of the symbol tables (Spec)     *)
(***************************************************************************)
\* The token that leads the statement the next iteration parses.
Lead == get_next_token(lexer)

LedByIdent == ~Lead.panic /\ Lead.tok # NoToken /\ Lead.tok.kind = "Ident"

\* The expression the iteration pushed onto the program, NoExpr for none.
Pushed == IF Len(program') > Len(program) THEN program'[Len(program')] ELSE NoExpr

\* The operand an expression starts with.
RECURSIVE Leftmost(_)
Leftmost(e) == IF e.kind = "BinaryOp" THEN Leftmost(e.lhs) ELSE e

VariableForms ==
    {"Variable", "AssignStatement", "StructFieldAccess", "StructFieldAssign"}

Names(table, field) == {table[i][field] : i \in 1..Len(table)}

VariableNames == {variables[i].metadata.name : i \in 1..Len(variables)}

\* C16: a statement led by an identifier is parsed in the form of the first of
\* the variable, procedure and struct tables that holds the name: as a use of
\* the variable; else as a call of the procedure; else as an instance of the
\* struct or nothing; a name in none of the tables adds one diagnostic with
\* the token's position and pushes no expression.
C16_ResolutionOrder ==
    [][(LedByIdent /\ status' = "running") =>
          LET name == Lead.tok.value
              form == IF Pushed = NoExpr THEN "none" ELSE Leftmost(Pushed).kind
          IN  IF name \in VariableNames
              THEN form \in VariableForms \cup {"none"}
              ELSE IF name \in Names(procedures, "name")
              THEN /\ form = "FunCall"
                   /\ Leftmost(Pushed).proc_def.name = name
              ELSE IF name \in Names(structs, "type_name")
              THEN \/ form = "none"
                   \/ /\ form = "StructInstance"
                      /\ Leftmost(Pushed).node.struct_def.type_name = name
              ELSE /\ form = "none"
                   /\ diags' = Append(diags, Diag(Lead.tok, "identifier"))]_vars

\* f is a variable and a procedure, and the last statement, led by f, was
\* parsed as a use of the variable.
C16_Witness ==
    /\ <<"f">> \in VariableNames
    /\ <<"f">> \in Names(procedures, "name")
    /\ program # <<>>
    /\ program[Len(program)].kind = "Variable"
    /\ program[Len(program)].node.metadata.name = <<"f">>

\* The struct P, an impl block of P that declares m, and the call `P::m();`.
ImplProgram == StructP2 \o ImplP \o CallPM

IsImplCallOf(e, name) ==
    /\ e.kind = "ImplFunCall"
    /\ e.fun_call_node.kind = "FunCall"
    /\ e.fun_call_node.proc_def.name = name

\* C17: once the struct P, its impl block with the procedure m and the
\* statement `P::m();` are parsed, the program holds an impl-method-call
\* expression that wraps a function call of m.
C17_ImplMethodCall ==
    (lexer.chars = ImplProgram /\ status = "done") =>
        \E i \in 1..Len(program) : IsImplCallOf(program[i], <<"m">>)

\* An instance has the fields of its definition, in the definition's order.
Aligned(node) ==
    /\ Len(node.fields) = Len(node.struct_def.fields)
    /\ \A i \in 1..Len(node.fields) :
           /\ node.fields[i].metadata.name = node.struct_def.fields[i].name
           /\ node.fields[i].metadata.type_name = node.struct_def.fields[i].type_name

\* C18: every registered struct instance has as many fields as its struct
\* definition, and its i-th field carries the name and the type name of the
\* definition's i-th field.
C18_InstanceAligned ==
    \A k \in 1..Len(struct_instances) : Aligned(struct_instances[k])

\* The next statement is a call: it is led by an identifier that names a
\* procedure and no variable.
LedByCall ==
    /\ status = "running"
    /\ LedByIdent
    /\ Lead.tok.value \notin VariableNames
    /\ Lead.tok.value \in Names(procedures, "name")

\* The k-th argument of a call carries the k-th declared parameter.
BoundByPosition(call) ==
    /\ Len(call.args) <= Len(call.proc_def.args)
    /\ \A k \in 1..Len(call.args) : call.args[k].metadata = call.proc_def.args[k]

\* C19: a statement that calls a declared procedure, with any number of
\* arguments, is parsed without abort into a function call of that procedure
\* whose k-th argument is bound to the procedure's k-th declared parameter.
C19_ArgumentBinding ==
    LedByCall =>
        LET r == parse_iteration(ParserState, program)
            e == Leftmost(r.program[Len(r.program)])
        IN  /\ r.status = "running"
            /\ Len(r.program) = Len(program) + 1
            /\ e.kind = "FunCall"
            /\ e.proc_def.name = Lead.tok.value
            /\ BoundByPosition(e)

IsPrefix(s, t) == Len(s) <= Len(t) /\ SubSeq(t, 1, Len(s)) = s

\* The earliest entry of a table under a name.
Earliest(table, field, name) ==
    table[CHOOSE i \in 1..Len(table) :
              table[i][field] = name /\ \A j \in 1..(i - 1) : table[j][field] # name]

\* C20: an iteration of the parse leaves every entry of the procedure, struct
\* and impl tables in place; a parsed procedure or struct declaration, of a new
\* name or of one already declared, appends one entry; and a call or an
\* instance literal refers to the earliest entry under its name.
C20_AppendOnly ==
    [][/\ IsPrefix(procedures, procedures')
       /\ IsPrefix(structs, structs')
       /\ IsPrefix(impl_blocks, impl_blocks')
       /\ Pushed.kind = "ProcDef" => procedures' = Append(procedures, Pushed.node)
       /\ Pushed.kind = "StructDef" => structs' = Append(structs, Pushed.node)
       /\ (LedByIdent /\ Leftmost(Pushed).kind = "FunCall") =>
              Leftmost(Pushed).proc_def = Earliest(procedures, "name", Lead.tok.value)
       /\ (LedByIdent /\ Leftmost(Pushed).kind = "StructInstance") =>
              Leftmost(Pushed).node.struct_def =
                  Earliest(structs, "type_name", Lead.tok.value)]_vars

\* f was declared twice as a procedure, with different parameters, and the
\* last statement is a call that refers to the first declaration.
C20_Witness ==
    /\ Len(procedures) >= 2
    /\ procedures[1].name = procedures[2].name
    /\ procedures[1] # procedures[2]
    /\ program # <<>>
    /\ program[Len(program)].kind = "FunCall"
    /\ program[Len(program)].proc_def = procedures[1]

(***************************************************************************)
(* Properties of conditions, declarations and scopes (Spec)                *)
(***************************************************************************)
\* The shapes of a boolean-typed condition.
BooleanShape(e) ==
    \/ e.kind \in {"BinaryOp", "StructFieldAccess"}
    \/ e.kind = "Literal" /\ e.lt = "Bool"
    \/ e.kind = "FunCall" /\ e.proc_def.return_type = SomeString(S_bool)
    \/ e.kind = "Variable" /\ e.node.metadata.type_name = S_bool

\* C21: the condition of every if and while statement of the program is of a
\* boolean shape: a bool literal, a call of a procedure that returns bool, a
\* struct-field access, a binary operation (or a variable of type bool).
C21_ConditionValidated ==
    \A i \in 1..Len(program) :
        program[i].kind \in {"IfStatement", "WhileStatement"} =>
            BooleanShape(program[i].value)

\* The next statement is an if whose condition parses to an expression that
\* visit_boolean_expr rejects.
ConditionRejected ==
    /\ status = "running"
    /\ ~Lead.panic /\ Lead.tok # NoToken /\ Lead.tok.kind \in {"If", "While"}
    /\ LET a == lexer_next_unwrap([ParserState EXCEPT !.lexer = Lead.lx])
           r == parse_expr(a.p, a.t)
       IN  /\ ~Bad(a.p) /\ ~Bad(r.p) /\ r.e # NoExpr
           /\ visit_boolean_expr(r.p, r.e).e = NoExpr

\* C22: when the condition of an if or while statement is rejected, the
\* statement adds a diagnostic, yields no expression, and the parse goes on.
C22_RejectionReported ==
    ConditionRejected =>
        LET r == parse_iteration(ParserState, program)
        IN  /\ r.status = "running"
            /\ r.program = program
            /\ Len(r.p.diags) > Len(diags)

\* C23: at the end of the parse of `let m: T = v;`, where v has the type V:
\* the statement is a LetStatement of m with the type name V, m is the last
\* entry of the variable table with the type name V, and exactly one
\* diagnostic, at the position of v, was emitted when T differs from V and
\* none when they agree.
C23_HintMismatchNonFatal ==
    \A type_name \in HintTypes, tv \in TypedValues :
        (lexer.chars = HintText(type_name, tv[1]) /\ status # "running") =>
            /\ status = "done"
            /\ program # <<>> /\ variables # <<>>
            /\ program[Len(program)].kind = "LetStatement"
            /\ program[Len(program)].name = <<"m">>
            /\ program[Len(program)].type_name = tv[2]
            /\ variables[Len(variables)].metadata = VarMetadataNode(<<"m">>, tv[2])
            /\ variables[Len(variables)].value = program[Len(program)].value
            /\ IF type_name = tv[2] THEN diags = <<>>
               ELSE /\ Len(diags) = 1
                    /\ diags[1].what = "expected"
                    /\ diags[1].row = 6
                    /\ diags[1].col = 10 + Len(type_name)

\* m was declared with the hint bool and the value 1: the parse is done with
\* one diagnostic and m registered as an i32.
C23_Witness ==
    /\ lexer.chars = HintText(S_bool, <<"1">>)
    /\ status = "done"
    /\ Len(diags) = 1
    /\ variables[Len(variables)].metadata = VarMetadataNode(<<"m">>, S_i32)

\* C24: once `let n = 1;`, the loop `for c in 0..3 { let z = c; }` and `n;`
\* are parsed, the program holds a for loop whose counter is the i32 variable
\* c, the z of its body was declared from that counter, and the variable
\* table holds n and z and no c.
C24_CounterScope ==
    (lexer.chars = ForProgram /\ status = "done") =>
        /\ \E i \in 1..Len(program) :
               /\ program[i].kind = "ForLoop"
               /\ program[i].counter.metadata = VarMetadataNode(<<"c">>, S_i32)
               /\ program[i].counter.value = program[i].range.start
               /\ Len(program[i].statements) = 1
               /\ program[i].statements[1].kind = "LetStatement"
               /\ program[i].statements[1].value = Variable(program[i].counter)
        /\ [i \in 1..Len(variables) |-> variables[i].metadata.name] = <<<<"n">>, <<"z">>>>

\* The next statement is led by the word `for`.
LedByForWord ==
    /\ status = "running"
    /\ LedByIdent
    /\ Lead.tok.value = <<"f", "o", "r">>

\* C29: a statement that yields no expression leaves the variable table as it
\* was when the statement was entered; and so does visit_for_loop, entered
\* after the word `for`, when it yields no expression.
C29_UnchangedOnFailure ==
    /\ status = "running" =>
           LET r == parse_iteration(ParserState, program)
           IN  (r.status = "running" /\ r.program = program) =>
                   r.p.variables = variables
    /\ LedByForWord =>
           LET r == visit_for_loop([ParserState EXCEPT !.lexer = Lead.lx])
           IN  (~Bad(r.p) /\ r.e = NoExpr) => r.p.variables = variables

\* The let statements of a list of statements, those of the bodies included.
RECURSIVE LetsIn(_)
LetsIn(es) ==
    IF es = <<>> THEN {}
    ELSE LetsIn(Tail(es)) \cup
         (CASE Head(es).kind = "LetStatement" -> {Head(es)}
            [] Head(es).kind \in {"IfStatement", "WhileStatement", "ForLoop"} ->
                 LetsIn(Head(es).statements)
            [] Head(es).kind = "ProcDef" -> LetsIn(Head(es).node.statements)
            [] OTHER -> {})

\* The variable a let statement registered is in the table, with its type and,
\* unless it is a struct instance (whose fields assignments update), its value.
Registered(l) ==
    \E i \in 1..Len(variables) :
        /\ variables[i].metadata = VarMetadataNode(l.name, l.type_name)
        /\ l.value.kind = "StructInstance" \/ variables[i].value = l.value

\* C25: every variable declared by a let statement of the program, at top
\* level or in a body, is in the variable table with its type and value.
C25_LetsPersist == \A l \in LetsIn(program) : Registered(l)

\* The table entry an identifier resolves to: the first of its name.
EntryOf(name) ==
    variables[CHOOSE i \in 1..Len(variables) :
                  /\ variables[i].metadata.name = name
                  /\ \A j \in 1..(i - 1) : variables[j].metadata.name # name]

\* C26: a statement is parsed as an assignment only when it is led by a name of
\* the variable table; the AssignNode's target is the name's table entry; the
\* variable, procedure and struct tables are the same after the statement as
\* before it; and a statement parsed as a read of a variable carries the entry
\* of the table.
C26_AssignmentFrame ==
    [][/\ Pushed.kind = "AssignStatement" =>
              /\ LedByIdent
              /\ Lead.tok.value \in VariableNames
              /\ Pushed.value = EntryOf(Lead.tok.value)
              /\ variables' = variables
              /\ procedures' = procedures
              /\ structs' = structs
       /\ (LedByIdent /\ Pushed.kind = "Variable") =>
              Pushed.node = EntryOf(Lead.tok.value)]_vars

\* x was declared with the value 1 and assigned 2, and the last statement
\* reads x with the value of the declaration.
C26_Witness ==
    /\ Len(program) >= 3
    /\ program[1].kind = "LetStatement"
    /\ program[2].kind = "AssignStatement"
    /\ program[2].value.metadata.name = program[1].name
    /\ program[2].new_value # program[1].value
    /\ program[Len(program)].kind = "Variable"
    /\ program[Len(program)].node.metadata.name = program[1].name
    /\ program[Len(program)].node.value = program[1].value

\* A statement of the list is, declares from or returns a call of the name.
CallsIn(es, name) ==
    \E i \in 1..Len(es) :
        LET e == IF es[i].kind \in {"LetStatement", "ReturnStatement"}
                 THEN es[i].value ELSE es[i]
        IN  Leftmost(e).kind = "FunCall" /\ Leftmost(e).proc_def.name = name

FirstOfName(j) == \A k \in 1..(j - 1) : procedures[k].name # procedures[j].name

\* C27: every procedure definition of the program is in the procedure table;
\* the body of the first procedure of a name holds no call of that name; and
\* at the end of `proc f() { f(); }` followed by `f();` the f of the body was
\* reported as an unresolved identifier at its position and the last
\* statement is a call of the registered definition.
C27_RegisteredAfterBody ==
    /\ \A i \in 1..Len(program) :
           program[i].kind = "ProcDef" =>
               \E j \in 1..Len(procedures) : procedures[j] = program[i].node
    /\ \A j \in 1..Len(procedures) :
           FirstOfName(j) => ~CallsIn(procedures[j].statements, procedures[j].name)
    /\ (lexer.chars \in {SelfProgram, SelfAfterLet} /\ status # "running") =>
           /\ status = "done"
           /\ Len(diags) = 1
           /\ diags[1].what = "identifier" /\ diags[1].text = <<"f">>
           /\ diags[1].row = 0
           /\ diags[1].col = IF lexer.chars = SelfProgram THEN 11 ELSE 22
           /\ Len(procedures) = 1
           /\ program[1] = ProcDef(procedures[1])
           /\ program[Len(program)] = FunCall(procedures[1], <<>>)

\* The parse of `proc f() { f(); }` and `f();` is done: one diagnostic and a
\* call of f as the last statement.
C27_Witness ==
    /\ lexer.chars = SelfProgram
    /\ status = "done"
    /\ Len(diags) = 1
    /\ program[Len(program)].kind = "FunCall"

\* The next statement is a variable followed by the token `==`.
LedByComparison ==
    /\ status = "running"
    /\ LedByIdent
    /\ Lead.tok.value \in VariableNames
    /\ LET n == get_next_token(Lead.lx)
       IN  ~n.panic /\ n.tok # NoToken /\ n.tok.kind = "Eq"

\* C28: a statement `x == e` on a variable x is parsed as the binary
\* operation Eq with x on its left, not as an assignment.
C28_EqualityIsNotAssignment ==
    LedByComparison =>
        LET r == parse_iteration(ParserState, program)
            e == r.program[Len(r.program)]
        IN  /\ r.status = "running"
            /\ Len(r.program) = Len(program) + 1
            /\ e.kind = "BinaryOp"
            /\ e.op = "Eq"
            /\ e.lhs = Variable(EntryOf(Lead.tok.value))

\* A literal of a kind and a text.
IsLiteral(e, lt, text) == e.kind = "Literal" /\ e.lt = lt /\ e.token.value = text

\* The default value of the struct S of DefaultsProgram.
IsDefaultS(e) ==
    /\ e.kind = "StructInstance"
    /\ e.node.struct_def.type_name = <<"S">>
    /\ Len(e.node.fields) = 2
    /\ e.node.fields[1].metadata = VarMetadataNode(<<"q">>, <<"Q">>)
    /\ e.node.fields[1].value.kind = "StructInstance"
    /\ Len(e.node.fields[1].value.node.fields) = 2
    /\ e.node.fields[1].value.node.fields[1].metadata = VarMetadataNode(<<"c">>, S_char)
    /\ IsLiteral(e.node.fields[1].value.node.fields[1].value, "Char", <<>>)
    /\ e.node.fields[1].value.node.fields[2].metadata = VarMetadataNode(<<"b">>, S_bool)
    /\ IsLiteral(e.node.fields[1].value.node.fields[2].value, "Bool",
                 <<"f", "a", "l", "s", "e">>)
    /\ e.node.fields[2].metadata = VarMetadataNode(<<"n">>, S_i32)
    /\ IsLiteral(e.node.fields[2].value, "Number", <<"0">>)

\* C30: no parse ends in the unbounded recursion of a default initialisation;
\* and the parameters of DefaultsProgram, read in the body, carry the default
\* values of their types, a struct's fields in definition order.
C30_DefaultInitialisation ==
    /\ status # "overflow"
    /\ (lexer.chars = DefaultsProgram /\ status = "done") =>
           /\ Len(program) = 3 /\ program[3].kind = "ProcDef"
           /\ Len(program[3].node.statements) = 3
           /\ IsDefaultS(program[3].node.statements[1].node.value)
           /\ IsLiteral(program[3].node.statements[2].node.value, "Float",
                        <<"0", ".", "0">>)
           /\ IsLiteral(program[3].node.statements[3].node.value, "String", <<>>)

====
